---- MODULE Spec2Model ----
(***************************************************************************)
(* Model of the reconciliation core of mygis_core/collab.py: the schema    *)
(* field reconciler (_get_comparable_fields), the paginated row streaming  *)
(* (_iter_layer_feature_tuples), the multiset accumulation and delta       *)
(* (_build_feature_counter, _counter_delta), the per-layer driver          *)
(* compare_feature_service_records, the metadata comparison                *)
(* compare_feature_service_items and the pairing pair_items_in_groups.     *)
(*                                                                         *)
(* Python values are modelled as follows.  A string that Python treats as  *)
(* falsy (None or "") is the empty string "".  An optional number (a count *)
(* that may be None) is a sequence: <<>> for None, <<n>> for n.  A dict    *)
(* whose iteration order matters (a Counter, a key -> layer map) is a      *)
(* sequence of <<key, value>> pairs in insertion order; a dict whose order *)
(* does not matter is a function.                                          *)
(***************************************************************************)
EXTENDS Integers, Sequences, FiniteSets, TLC

\* ------------------------------------------------------------------ bounds
MaxRows == 3
MaxChunk == 2
MaxFields == 2

\* ----------------------------------------------------------------- helpers
None == <<>>
Some(x) == <<x>>

Range(s) == {s[i] : i \in 1..Len(s)}

Min(a, b) == IF a < b THEN a ELSE b

SeqsUpTo(S, n) == UNION {[1..k -> S] : k \in 0..n}

\* str.lower() on the strings that occur in the model.
Lower(s) ==
    CASE s = "OBJECTID" -> "objectid"
      [] s = "ObjectId" -> "objectid"
      [] s = "GlobalID" -> "globalid"
      [] s = "ID" -> "id"
      [] s = "NAME" -> "name"
      [] s = "Name" -> "name"
      [] s = "STATUS" -> "status"
      [] s = "Status" -> "status"
      [] s = "SHAPE" -> "shape"
      [] s = "Shape" -> "shape"
      [] s = "Shape_Length" -> "shape_length"
      [] s = "Shape_Area" -> "shape_area"
      [] s = "GEOM" -> "geom"
      [] s = "esriFieldTypeGeometry" -> "esrifieldtypegeometry"
      [] s = "esriFieldTypeString" -> "esrifieldtypestring"
      [] s = "esriFieldTypeOID" -> "esrifieldtypeoid"
      [] s = "Parcels" -> "parcels"
      [] s = "PARCELS" -> "parcels"
      [] s = "Roads" -> "roads"
      [] s = "Owners" -> "owners"
      [] OTHER -> s

\* ------------------------------------------------- ordered dicts (pairs)
\* dict.get(key, default) on an insertion-ordered dict.
RECURSIVE DictGet(_, _, _)
DictGet(d, key, default) ==
    IF d = <<>> THEN default
    ELSE IF d[Len(d)][1] = key THEN d[Len(d)][2]
    ELSE DictGet(SubSeq(d, 1, Len(d) - 1), key, default)

DictHas(d, key) == \E i \in 1..Len(d) : d[i][1] = key

\* d[key] = value: an existing key keeps its position, a new key is appended.
DictSet(d, key, value) ==
    IF DictHas(d, key)
    THEN [i \in 1..Len(d) |-> IF d[i][1] = key THEN <<key, value>> ELSE d[i]]
    ELSE Append(d, <<key, value>>)

DictKeys(d) == [i \in 1..Len(d) |-> d[i][1]]

\* ------------------------------------------------------------ layer keys
\* What _layer_key reads of a layer handle: properties["name"] and the name
\* attribute, properties["id"], properties["layerId"] and the _layer_id
\* attribute, whether the reads of the name tier or of the id tier raise,
\* and the identity id(layer) of the handle.
Handle(props_name, attr_name, props_id, props_layerId, layer_id, name_err, id_err, addr) ==
    [propsName |-> props_name, attrName |-> attr_name, propsId |-> props_id,
     propsLayerId |-> props_layerId, _layer_id |-> layer_id,
     nameErr |-> name_err, idErr |-> id_err, addr |-> addr]

\* Lines 45-49: the first of the three ids that is not None.
LayerIdOf(h) ==
    IF h.propsId # None THEN h.propsId
    ELSE IF h.propsLayerId # None THEN h.propsLayerId
    ELSE h._layer_id

\* Mutant of LayerKey: the id is tested for truth, so id 0 counts as absent.
LayerKey_ZeroIdIsAbsent(h) ==
    LET name == IF h.propsName # "" THEN h.propsName ELSE h.attrName
        lid == LayerIdOf(h)
    IN  IF ~h.nameErr /\ name # "" THEN name
        ELSE IF ~h.idErr /\ lid # None /\ lid[1] # 0 THEN "id:" \o ToString(lid[1])
        ELSE ToString(h.addr)

\* _layer_key: the name when truthy, else "id:<id>", else str(id(layer));
\* an exception in a tier is swallowed and the next tier is tried.
LayerKey(h) ==
    LET name == IF h.propsName # "" THEN h.propsName ELSE h.attrName
        lid == LayerIdOf(h)
    IN  IF ~h.nameErr /\ name # "" THEN name
        ELSE IF ~h.idErr /\ lid # None THEN "id:" \o ToString(lid[1])
        ELSE ToString(h.addr)

\* The handle of a layer of a compared service: name and id are declared in
\* its properties and are read without error.
HandleOf(layer) == Handle(layer.name, "", layer.lid, None, None, FALSE, FALSE, layer.addr)

LayerKeyOf(layer) == LayerKey(HandleOf(layer))

RECURSIVE MapByKey(_, _)
MapByKey(layers, acc) ==
    IF layers = <<>> THEN acc
    ELSE MapByKey(Tail(layers), DictSet(acc, LayerKeyOf(Head(layers)), Head(layers)))

\* _map_flc_by_key: kind -> (key -> layer); host_map.get(kind, {}) of a kind
\* with no layer is the empty dict either way.
MapFlcByKey(flc) ==
    [layers |-> MapByKey(flc.layers, <<>>), tables |-> MapByKey(flc.tables, <<>>)]

\* ------------------------------------------------- schema field reconciler
BuiltinIgnore == {"shape", "shape_length", "shape_area"}

DeclaredAttrs(layer) ==
    {layer.objectIdField, layer.globalIdField, layer.shapeFieldName, layer.geometryField}

AutoIgnoreLower(layer) ==
    {Lower(v) : v \in {d \in DeclaredAttrs(layer) : d # ""}} \cup BuiltinIgnore

IsGeometryType(field_type) ==
    field_type # "" /\ Lower(field_type) = "esrifieldtypegeometry"

\* Mutant of KeepField: the names are compared as spelled, not lowercased.
KeepField_CaseSensitive(field, ignore_lower, auto_ignore_lower) ==
    /\ field.name # ""
    /\ field.name \notin ignore_lower
    /\ field.name \notin auto_ignore_lower
    /\ ~IsGeometryType(field.type)

\* The loop body of _get_comparable_fields: whether one field descriptor is kept.
KeepField(field, ignore_lower, auto_ignore_lower) ==
    /\ field.name # ""
    /\ Lower(field.name) \notin ignore_lower
    /\ Lower(field.name) \notin auto_ignore_lower
    /\ ~IsGeometryType(field.type)

RECURSIVE ComparableLoop(_, _, _, _)
ComparableLoop(fields_meta, ignore_lower, auto_ignore_lower, comparable) ==
    IF fields_meta = <<>> THEN comparable
    ELSE ComparableLoop(Tail(fields_meta), ignore_lower, auto_ignore_lower,
            IF KeepField(Head(fields_meta), ignore_lower, auto_ignore_lower)
            THEN Append(comparable, Head(fields_meta).name)
            ELSE comparable)

\* Mutant of OidFallback: no fallback to the object-id field.
OidFallback_Never(layer, comparable) == comparable

OidFallback(layer, comparable) ==
    IF comparable = <<>> /\ layer.objectIdField # ""
    THEN <<layer.objectIdField>>
    ELSE comparable

GetComparableFields(layer, extra_ignored) ==
    IF layer.fields = <<>> THEN <<>>
    ELSE OidFallback(layer,
            ComparableLoop(layer.fields, {Lower(f) : f \in extra_ignored},
                           AutoIgnoreLower(layer), <<>>))

\* guest_lookup = {f.lower(): f for f in guest_fields}: the last spelling wins.
GuestLookup(guest_fields) ==
    [l \in {Lower(f) : f \in Range(guest_fields)} |->
        guest_fields[CHOOSE i \in 1..Len(guest_fields) :
            /\ Lower(guest_fields[i]) = l
            /\ \A j \in (i + 1)..Len(guest_fields) : Lower(guest_fields[j]) # l]]

\* Mutant of GuestFieldFor: the first guest field, whatever its name.
GuestFieldFor_First(guest_fields, host_field) ==
    IF guest_fields # <<>> THEN guest_fields[1] ELSE ""


GuestFieldFor(guest_fields, host_field) ==
    IF Lower(host_field) \in DOMAIN GuestLookup(guest_fields)
    THEN GuestLookup(guest_fields)[Lower(host_field)]
    ELSE ""

\* fields_info: <<lower, host spelling, guest spelling>> per matched host field.
RECURSIVE FieldsInfo(_, _)
FieldsInfo(host_fields, guest_fields) ==
    IF host_fields = <<>> THEN <<>>
    ELSE LET g == GuestFieldFor(guest_fields, Head(host_fields))
             rest == FieldsInfo(Tail(host_fields), guest_fields)
         IN  IF g # ""
             THEN <<<<Lower(Head(host_fields)), Head(host_fields), g>>>> \o rest
             ELSE rest

MissingOnGuest(host_fields, guest_fields) ==
    SelectSeq(host_fields, LAMBDA h : GuestFieldFor(guest_fields, h) = "")

FieldOrder(fields_info) == [i \in 1..Len(fields_info) |-> fields_info[i][1]]

\* {info[0]: info[col] for info in fields_info}: the last entry of a key wins.
FieldMap(fields_info, col) ==
    [l \in Range(FieldOrder(fields_info)) |->
        fields_info[CHOOSE i \in 1..Len(fields_info) :
            /\ fields_info[i][1] = l
            /\ \A j \in (i + 1)..Len(fields_info) : fields_info[j][1] # l][col]]

ActualFields(canonical_order, field_map) ==
    [i \in 1..Len(canonical_order) |-> field_map[canonical_order[i]]]

\* clean_fields: falsy names dropped, repeated names kept once, in order.
RECURSIVE CleanFields(_, _)
CleanFields(field_names, clean) ==
    IF field_names = <<>> THEN clean
    ELSE CleanFields(Tail(field_names),
            IF Head(field_names) = "" \/ Head(field_names) \in Range(clean)
            THEN clean
            ELSE Append(clean, Head(field_names)))

\* ------------------------------------------------------ remote endpoint
\* Texts of the exceptions a failing request raises.
ExcTexts == {"timeout", "HTTP 500"}

\* attrs.get(name) of a field the row does not carry.
NoValue == "<None>"

\* The endpoint's answer to result_offset/result_record_count: the window of
\* the stable row order, cut to the service's page cap when it has one.
QueryPage(layer, offset, record_count) ==
    LET n == IF layer.pageCap > 0 THEN Min(record_count, layer.pageCap) ELSE record_count
    IN  SubSeq(layer.rows, offset + 1, Min(offset + n, Len(layer.rows)))

\* The endpoint's answer to return_all_records=True.
QueryAll(layer) == layer.rows

\* _safe_count: the count of the rows, or None when the count query raises.
SafeCountOutcomes(layer) == {Some(Len(layer.rows)), None}

\* ------------------------------------------------------- record streaming
SupportsPagination(layer) == layer.supportsPagination

UsePagination(layer, chunk_size) == SupportsPagination(layer) /\ chunk_size > 0

\* tuple(attrs.get(name) for name in clean_fields)
FeatureTuple(attrs, clean_fields) ==
    [i \in 1..Len(clean_fields) |->
        IF clean_fields[i] \in DOMAIN attrs THEN attrs[clean_fields[i]] ELSE NoValue]

FeatureTuples(features, clean_fields) ==
    [i \in 1..Len(features) |-> FeatureTuple(features[i], clean_fields)]

\* Mutant of LastPage: the loop also stops after a full page.
LastPage_Le(features, chunk_size) == Len(features) <= chunk_size

\* if len(features) < chunk_size: break
LastPage(features, chunk_size) == Len(features) < chunk_size

\* Mutant of NextOffset: the next window starts one row too far.
NextOffset_SkipOne(offset, features) == offset + Len(features) + 1

\* Mutant of NextOffset: the offset does not advance.
NextOffset_Stay(offset, features) == offset


\* offset += len(features)
NextOffset(offset, features) == offset + Len(features)

\* The paginated loop of _iter_layer_feature_tuples from one offset on.
RECURSIVE IterPaged(_, _, _, _)
IterPaged(layer, clean_fields, chunk_size, offset) ==
    LET features == QueryPage(layer, offset, chunk_size)
    IN  IF features = <<>> THEN <<>>
        ELSE FeatureTuples(features, clean_fields) \o
             (IF LastPage(features, chunk_size) THEN <<>>
              ELSE IterPaged(layer, clean_fields, chunk_size, NextOffset(offset, features)))

\* _iter_layer_feature_tuples when no request raises: the tuples it yields.
IterLayerFeatureTuples(layer, field_names, chunk_size) ==
    LET clean_fields == CleanFields(field_names, <<>>)
    IN  IF clean_fields = <<>> THEN <<>>
        ELSE IF UsePagination(layer, chunk_size)
        THEN IterPaged(layer, clean_fields, chunk_size, 0)
        ELSE FeatureTuples(QueryAll(layer), clean_fields)

\* counter[values] += 1
CounterInc(counter, values) == DictSet(counter, values, DictGet(counter, values, 0) + 1)

RECURSIVE CountTuples(_, _)
CountTuples(counter, tuples) ==
    IF tuples = <<>> THEN counter
    ELSE CountTuples(CounterInc(counter, Head(tuples)), Tail(tuples))

\* _build_feature_counter when no request raises.
BuildFeatureCounter(layer, canonical_order, field_map, chunk_size) ==
    CountTuples(<<>>,
        IterLayerFeatureTuples(layer, ActualFields(canonical_order, field_map), chunk_size))

\* dict(zip(field_names, key)): cut to the shorter, a repeated name keeps its
\* last value.
ZipDict(field_names, key) ==
    LET n == Min(Len(field_names), Len(key))
    IN  [f \in {field_names[i] : i \in 1..n} |->
            key[CHOOSE i \in 1..n :
                /\ field_names[i] = f
                /\ \A j \in (i + 1)..n : field_names[j] # f]]

\* Mutant of HostOnlyOf: ">=" for ">", so a tuple with equal counts is listed.
RECURSIVE HostOnlyOf_Ge(_, _, _)
HostOnlyOf_Ge(host_items, guest_counter, field_names) ==
    IF host_items = <<>> THEN <<>>
    ELSE LET key == Head(host_items)[1]
             host_count == Head(host_items)[2]
             guest_count == DictGet(guest_counter, key, 0)
             rest == HostOnlyOf_Ge(Tail(host_items), guest_counter, field_names)
         IN  IF host_count >= guest_count
             THEN <<[count |-> host_count - guest_count,
                     attributes |-> ZipDict(field_names, key)]>> \o rest
             ELSE rest

\* The first loop of _counter_delta.
RECURSIVE HostOnlyOf(_, _, _)
HostOnlyOf(host_items, guest_counter, field_names) ==
    IF host_items = <<>> THEN <<>>
    ELSE LET key == Head(host_items)[1]
             host_count == Head(host_items)[2]
             guest_count == DictGet(guest_counter, key, 0)
             rest == HostOnlyOf(Tail(host_items), guest_counter, field_names)
         IN  IF host_count > guest_count
             THEN <<[count |-> host_count - guest_count,
                     attributes |-> ZipDict(field_names, key)]>> \o rest
             ELSE rest

\* Mutant of GuestOnlyOf: the guest's count is reported, not the difference.
RECURSIVE GuestOnlyOf_NoSubtract(_, _, _)
GuestOnlyOf_NoSubtract(guest_items, host_counter, field_names) ==
    IF guest_items = <<>> THEN <<>>
    ELSE LET key == Head(guest_items)[1]
             guest_count == Head(guest_items)[2]
             host_count == DictGet(host_counter, key, 0)
             rest == GuestOnlyOf_NoSubtract(Tail(guest_items), host_counter, field_names)
         IN  IF guest_count > host_count
             THEN <<[count |-> guest_count,
                     attributes |-> ZipDict(field_names, key)]>> \o rest
             ELSE rest

\* The second loop of _counter_delta.
RECURSIVE GuestOnlyOf(_, _, _)
GuestOnlyOf(guest_items, host_counter, field_names) ==
    IF guest_items = <<>> THEN <<>>
    ELSE LET key == Head(guest_items)[1]
             guest_count == Head(guest_items)[2]
             host_count == DictGet(host_counter, key, 0)
             rest == GuestOnlyOf(Tail(guest_items), host_counter, field_names)
         IN  IF guest_count > host_count
             THEN <<[count |-> guest_count - host_count,
                     attributes |-> ZipDict(field_names, key)]>> \o rest
             ELSE rest

\* _counter_delta: <<host_only, guest_only>>.
CounterDelta(host_counter, guest_counter, field_names) ==
    <<HostOnlyOf(host_counter, guest_counter, field_names),
      GuestOnlyOf(guest_counter, host_counter, field_names)>>

\* Mutant of CounterTotal: the number of distinct tuples.
CounterTotal_Distinct(counter) == Len(counter)


\* sum(counter.values())
RECURSIVE CounterTotal(_)
CounterTotal(counter) ==
    IF counter = <<>> THEN 0 ELSE Head(counter)[2] + CounterTotal(Tail(counter))

\* Mutant of EntryStatus: guest_only is not looked at.
EntryStatus_HostOnly(host_only, guest_only) ==
    IF host_only = <<>> THEN "ok" ELSE "mismatch"

\* "ok" if not host_only and not guest_only else "mismatch"
EntryStatus(host_only, guest_only) ==
    IF host_only = <<>> /\ guest_only = <<>> THEN "ok" ELSE "mismatch"

\* Mutant of OverallStatus: a mismatch is looked for before an error.
OverallStatus_MismatchFirst(entries) ==
    LET statuses == {entries[i].status : i \in 1..Len(entries)}
    IN  IF statuses \cap {"mismatch", "missing_on_guest", "missing_on_host"} # {}
        THEN "mismatch"
        ELSE IF "error" \in statuses THEN "error" ELSE "ok"

\* The overall status of compare_feature_service_records.
OverallStatus(entries) ==
    LET statuses == {entries[i].status : i \in 1..Len(entries)}
    IN  IF "error" \in statuses THEN "error"
        ELSE IF statuses \cap {"mismatch", "missing_on_guest", "missing_on_host"} # {}
        THEN "mismatch" ELSE "ok"

\* dict.update
Merge(r1, r2) ==
    [k \in DOMAIN r1 \cup DOMAIN r2 |-> IF k \in DOMAIN r2 THEN r2[k] ELSE r1[k]]

\* ------------------------------------------------------------------ state
VARIABLES
    env,      \* the two services as the portals hold them: [host, guest]
    args,     \* the call's arguments: chunk_size, ignore_fields, layer_keys
    pc,       \* position in compare_feature_service_records
    kind,     \* the collection under comparison: "layers" or "tables"
    todo,     \* the keys the current loop has still to visit
    cur,      \* the locals of the loop iteration in progress
    results,  \* layer_results and table_results
    queries,  \* every request issued to an endpoint, in order
    result,   \* the returned payload: None until the call returns
    fLayer,   \* comparable_fields applied alone: its layer,
    fIgnore,  \*   its ignore set,
    fOut      \*   and what it returned (None before the call)

cmpVars == <<env, args, pc, kind, todo, cur, results, queries, result>>
fldVars == <<fLayer, fIgnore, fOut>>
vars == <<env, args, pc, kind, todo, cur, results, queries, result, fLayer, fIgnore, fOut>>

\* ------------------------------------------------- the call's derived data
HostMap == MapFlcByKey(env.host)
GuestMap == MapFlcByKey(env.guest)

\* chunk_size_val: a negative chunk size counts as 0.
ChunkSizeVal == IF args.chunk_size < 0 THEN 0 ELSE args.chunk_size

LayerKeyFilter == {Lower(k) : k \in args.layer_keys}

\* Mutant of AllowKey: the key is looked up as it is spelled.
AllowKey_CaseSensitive(key) == args.layer_keys = {} \/ key \in args.layer_keys


\* allow_key
AllowKey(key) == LayerKeyFilter = {} \/ Lower(key) \in LayerKeyFilter

HostObjs == HostMap[kind]
GuestObjs == GuestMap[kind]

NoLayer == [name |-> ""]

\* The "name" of an entry: the declared name, else the key.
EntryName(layer, key) == IF layer.name # "" THEN layer.name ELSE key

NoCur ==
    [key |-> "", entry |-> [kind |-> "", key |-> "", name |-> ""],
     host_fields |-> <<>>, guest_fields |-> <<>>, fields_info |-> <<>>,
     offset |-> 0, counter |-> <<>>, host_counter |-> <<>>, guest_counter |-> <<>>]

\* What the log keeps of a count query: it answered, or it raised.
CountOutcome(count) == IF count # None THEN "ok" ELSE "error"

\* Mutant of Continue: the loop is left, the remaining keys are not visited.
Continue_Break(keys) == <<>>

\* Mutant of Continue: the loop stays on the key whose request failed.
Continue_Retry(keys) == keys


\* continue: the loop goes on with the key after the current one.
Continue(keys) == Tail(keys)

Logged(side, key, op, offset, outcome) ==
    [side |-> side, kind |-> kind, key |-> key, op |-> op, offset |-> offset,
     outcome |-> outcome]

AppendResult(entry) == [results EXCEPT ![kind] = Append(@, entry)]

\* The entry of a key that only the host service has (lines 415-422).
MissingOnGuestEntry(entry, hc) ==
    Merge(entry, [status |-> "missing_on_guest", host_count |-> hc,
                  guest_count |-> None, host_only |-> <<>>, guest_only |-> <<>>])

\* Mutant of MissingOnHostEntry: the status name of the metadata comparison.
MissingOnHostEntry_AsExtra(key, guest_layer, gc) ==
    [kind |-> kind, key |-> key, name |-> EntryName(guest_layer, key),
     status |-> "extra_on_guest", host_count |-> None, guest_count |-> gc,
     host_only |-> <<>>, guest_only |-> <<>>]

\* The entry of a key that only the guest service has (lines 502-512).
MissingOnHostEntry(key, guest_layer, gc) ==
    [kind |-> kind, key |-> key, name |-> EntryName(guest_layer, key),
     status |-> "missing_on_host", host_count |-> None, guest_count |-> gc,
     host_only |-> <<>>, guest_only |-> <<>>]

\* ---------------------------------------------------------------- actions
\* host_gis.content.get / guest_gis.content.get (lines 72-73, 364-365): each
\* portal finds the item, returns None, or the request raises.
ContentGet(side) == env[side].item

\* FeatureLayerCollection.fromitem on both items, host first (lines 82-84,
\* 374-376): "ok", or the text of the first exception raised.
FromItems ==
    IF env.host.opens # "ok" THEN env.host.opens ELSE env.guest.opens

\* The payload returned when an item is None (lines 74-80, 366-372).
NotFoundPayload ==
    [status |-> "error", message |-> <<"One or both items not found">>,
     host_item_id |-> args.host_item_id, guest_item_id |-> args.guest_item_id]

\* The payload returned when fromitem raises (lines 85-91, 377-383).
OpenFailedPayload(exc) ==
    [status |-> "error", message |-> <<"Failed to open FeatureLayerCollection: ", exc>>,
     host_item_id |-> args.host_item_id, guest_item_id |-> args.guest_item_id]

\* How the head of both compare operations ends: the lookups are not
\* guarded, so a lookup that raises leaves the call by the exception; an
\* item that is None and an opening that raises return an error payload.
Opening ==
    IF ContentGet("host") = "raise" \/ ContentGet("guest") = "raise"
    THEN [how |-> "raise"]
    ELSE IF ContentGet("host") = "none" \/ ContentGet("guest") = "none"
    THEN [how |-> "return", payload |-> NotFoundPayload]
    ELSE IF FromItems # "ok"
    THEN [how |-> "return", payload |-> OpenFailedPayload(FromItems)]
    ELSE [how |-> "proceed"]

\* Lines 364-397 and the entry into compare_collection("layers").
Open ==
    /\ pc = "start"
    /\ IF Opening.how = "raise"
       THEN /\ pc' = "raised"
            /\ UNCHANGED <<kind, todo, result>>
       ELSE IF Opening.how = "return"
       THEN /\ pc' = "done"
            /\ result' = Some(Opening.payload)
            /\ UNCHANGED <<kind, todo>>
       ELSE /\ pc' = "host_loop"
            /\ kind' = "layers"
            /\ todo' = DictKeys(HostMap.layers)
            /\ UNCHANGED result
    /\ UNCHANGED <<env, args, cur, results, queries, fldVars>>

\* One iteration of the loop over host_objs.items() up to the first record
\* request (lines 405-462), or the loop's end.
HostKey ==
    /\ pc = "host_loop"
    /\ IF todo = <<>>
       THEN /\ pc' = "guest_loop"
            /\ todo' = DictKeys(GuestObjs)
            /\ UNCHANGED <<cur, results, queries>>
       ELSE LET key == Head(todo)
                host_layer == DictGet(HostObjs, key, NoLayer)
                guest_layer == DictGet(GuestObjs, key, NoLayer)
                entry == [kind |-> kind, key |-> key, name |-> EntryName(host_layer, key)]
            IN  IF ~AllowKey(key)
                THEN /\ todo' = Tail(todo)
                     /\ UNCHANGED <<pc, cur, results, queries>>
                ELSE IF ~DictHas(GuestObjs, key)
                THEN \E hc \in SafeCountOutcomes(host_layer) :
                        /\ results' = AppendResult(MissingOnGuestEntry(entry, hc))
                        /\ queries' = Append(queries, Logged("host", key, "count", 0, CountOutcome(hc)))
                        /\ todo' = Tail(todo)
                        /\ UNCHANGED <<pc, cur>>
                ELSE LET host_fields == GetComparableFields(host_layer, args.ignore_fields)
                         guest_fields == GetComparableFields(guest_layer, args.ignore_fields)
                         fields_info == FieldsInfo(host_fields, guest_fields)
                         missing_on_guest == MissingOnGuest(host_fields, guest_fields)
                         now == [NoCur EXCEPT !.key = key, !.entry = entry,
                                    !.host_fields = host_fields,
                                    !.guest_fields = guest_fields,
                                    !.fields_info = fields_info]
                     IN  IF missing_on_guest # <<>>
                         THEN /\ results' = AppendResult(Merge(entry,
                                    [status |-> "error",
                                     message |-> <<"Host fields missing on guest layer">>,
                                     missing_fields_on_guest |-> missing_on_guest]))
                              /\ cur' = now
                              /\ todo' = Tail(todo)
                              /\ UNCHANGED <<pc, queries>>
                         ELSE IF fields_info = <<>>
                         THEN \E hc \in SafeCountOutcomes(host_layer),
                                 gc \in SafeCountOutcomes(guest_layer) :
                                /\ results' = AppendResult(Merge(entry,
                                      [status |-> "skipped",
                                       message |-> <<"No comparable fields available after filtering">>,
                                       host_count |-> hc, guest_count |-> gc,
                                       host_only |-> <<>>, guest_only |-> <<>>]))
                                /\ queries' = queries \o
                                      <<Logged("host", key, "count", 0, CountOutcome(hc)),
                                        Logged("guest", key, "count", 0, CountOutcome(gc))>>
                                /\ cur' = now
                                /\ todo' = Tail(todo)
                                /\ UNCHANGED pc
                         ELSE /\ cur' = now
                              /\ pc' = "host_query"
                              /\ UNCHANGED <<todo, results, queries>>
    /\ UNCHANGED <<env, args, kind, result, fldVars>>

\* What one request of the streaming loop leaves behind: the features it
\* returned, counted, and whether the loop ends with it.
PageOf(layer, chunk_size, offset) ==
    IF UsePagination(layer, chunk_size)
    THEN QueryPage(layer, offset, chunk_size)
    ELSE QueryAll(layer)

StreamEnds(layer, chunk_size, features) ==
    \/ ~UsePagination(layer, chunk_size)
    \/ features = <<>>
    \/ LastPage(features, chunk_size)

RequestOp(layer, chunk_size) == IF UsePagination(layer, chunk_size) THEN "page" ELSE "all"

\* The entry of a layer whose two counters are built (lines 484-497).
ComparedEntry(entry, host_counter, guest_counter, fields_info) ==
    LET result_field_names == ActualFields(FieldOrder(fields_info), FieldMap(fields_info, 2))
        delta == CounterDelta(host_counter, guest_counter, result_field_names)
        base == Merge(entry,
                  [status |-> EntryStatus(delta[1], delta[2]),
                   fields_compared |-> result_field_names,
                   host_count |-> CounterTotal(host_counter),
                   guest_count |-> CounterTotal(guest_counter),
                   host_only |-> delta[1],
                   guest_only |-> delta[2]])
    IN  IF args.ignore_fields # {}
        THEN Merge(base, [ignored_fields |-> args.ignore_fields])
        ELSE base

\* One request of _build_feature_counter on the host layer (line 465): it
\* raises, or its features are counted and the loop goes on or ends.
QueryHost ==
    /\ pc = "host_query"
    /\ LET layer == DictGet(HostObjs, cur.key, NoLayer)
           clean_fields == CleanFields(ActualFields(FieldOrder(cur.fields_info),
                                                    FieldMap(cur.fields_info, 2)), <<>>)
           features == PageOf(layer, ChunkSizeVal, cur.offset)
           counter == CountTuples(cur.counter, FeatureTuples(features, clean_fields))
       IN  IF clean_fields = <<>>
           THEN /\ cur' = [cur EXCEPT !.host_counter = <<>>, !.counter = <<>>, !.offset = 0]
                /\ pc' = "guest_query"
                /\ UNCHANGED <<todo, results, queries>>
           ELSE \E outcome \in {"ok"} \cup ExcTexts :
                  IF outcome # "ok"
                  THEN /\ results' = AppendResult(Merge(cur.entry,
                              [status |-> "error",
                               message |-> <<"Failed to query host layer: ", outcome>>]))
                       /\ queries' = Append(queries,
                              Logged("host", cur.key, RequestOp(layer, ChunkSizeVal),
                                     cur.offset, outcome))
                       /\ pc' = "host_loop"
                       /\ todo' = Continue(todo)
                       /\ UNCHANGED cur
                  ELSE /\ queries' = Append(queries,
                              Logged("host", cur.key, RequestOp(layer, ChunkSizeVal),
                                     cur.offset, "ok"))
                       /\ IF StreamEnds(layer, ChunkSizeVal, features)
                          THEN /\ cur' = [cur EXCEPT !.host_counter = counter,
                                              !.counter = <<>>, !.offset = 0]
                               /\ pc' = "guest_query"
                          ELSE /\ cur' = [cur EXCEPT !.counter = counter,
                                              !.offset = NextOffset(cur.offset, features)]
                               /\ UNCHANGED pc
                       /\ UNCHANGED <<todo, results>>
    /\ UNCHANGED <<env, args, kind, result, fldVars>>

\* One request of _build_feature_counter on the guest layer (line 475);
\* when the stream ends the delta is taken and the entry appended.
QueryGuest ==
    /\ pc = "guest_query"
    /\ LET layer == DictGet(GuestObjs, cur.key, NoLayer)
           clean_fields == CleanFields(ActualFields(FieldOrder(cur.fields_info),
                                                    FieldMap(cur.fields_info, 3)), <<>>)
           features == PageOf(layer, ChunkSizeVal, cur.offset)
           counter == CountTuples(cur.counter, FeatureTuples(features, clean_fields))
       IN  IF clean_fields = <<>>
           THEN /\ cur' = [cur EXCEPT !.guest_counter = <<>>, !.counter = <<>>, !.offset = 0]
                /\ results' = AppendResult(
                       ComparedEntry(cur.entry, cur.host_counter, <<>>, cur.fields_info))
                /\ pc' = "host_loop"
                /\ todo' = Tail(todo)
                /\ UNCHANGED queries
           ELSE \E outcome \in {"ok"} \cup ExcTexts :
                  IF outcome # "ok"
                  THEN /\ results' = AppendResult(Merge(cur.entry,
                              [status |-> "error",
                               message |-> <<"Failed to query guest layer: ", outcome>>]))
                       /\ queries' = Append(queries,
                              Logged("guest", cur.key, RequestOp(layer, ChunkSizeVal),
                                     cur.offset, outcome))
                       /\ pc' = "host_loop"
                       /\ todo' = Continue(todo)
                       /\ UNCHANGED cur
                  ELSE /\ queries' = Append(queries,
                              Logged("guest", cur.key, RequestOp(layer, ChunkSizeVal),
                                     cur.offset, "ok"))
                       /\ IF StreamEnds(layer, ChunkSizeVal, features)
                          THEN /\ cur' = [cur EXCEPT !.guest_counter = counter,
                                              !.counter = <<>>, !.offset = 0]
                               /\ results' = AppendResult(
                                      ComparedEntry(cur.entry, cur.host_counter, counter,
                                                    cur.fields_info))
                               /\ pc' = "host_loop"
                               /\ todo' = Tail(todo)
                          ELSE /\ cur' = [cur EXCEPT !.counter = counter,
                                              !.offset = NextOffset(cur.offset, features)]
                               /\ UNCHANGED <<pc, todo, results>>
    /\ UNCHANGED <<env, args, kind, result, fldVars>>

\* One iteration of the loop over guest_objs.items() (lines 499-513); at its
\* end the next collection is compared, or the payload is built and returned
\* (lines 516-546).
GuestKey ==
    /\ pc = "guest_loop"
    /\ IF todo = <<>>
       THEN IF kind = "layers"
            THEN /\ kind' = "tables"
                 /\ pc' = "host_loop"
                 /\ todo' = DictKeys(HostMap.tables)
                 /\ UNCHANGED <<results, queries, result>>
            ELSE /\ pc' = "done"
                 /\ result' = Some([status |-> OverallStatus(results.layers \o results.tables),
                                    host_item_id |-> args.host_item_id,
                                    guest_item_id |-> args.guest_item_id,
                                    layers |-> results.layers,
                                    tables |-> results.tables,
                                    chunk_size |-> ChunkSizeVal])
                 /\ UNCHANGED <<kind, todo, results, queries>>
       ELSE LET key == Head(todo)
                guest_layer == DictGet(GuestObjs, key, NoLayer)
            IN  IF DictHas(HostObjs, key) \/ ~AllowKey(key)
                THEN /\ todo' = Tail(todo)
                     /\ UNCHANGED <<pc, kind, results, queries, result>>
                ELSE \E gc \in SafeCountOutcomes(guest_layer) :
                        /\ results' = AppendResult(MissingOnHostEntry(key, guest_layer, gc))
                        /\ queries' = Append(queries, Logged("guest", key, "count", 0, CountOutcome(gc)))
                        /\ todo' = Tail(todo)
                        /\ UNCHANGED <<pc, kind, result>>
    /\ UNCHANGED <<env, args, cur, fldVars>>

Next == Open \/ HostKey \/ QueryHost \/ QueryGuest \/ GuestKey

\* ============================================ compare_feature_service_items
\* Python truth of an optional number: None and 0 are false.
Truthy(v) == v # None /\ v[1] # 0

\* a or b
PyOr(a, b) == IF Truthy(a) THEN a ELSE b

\* _safe_get_last_edit_ms when no read raises: the editingInfo (or
\* editinginfo) property when it is a dict, else the layer's own dates.
SafeGetLastEditMs(layer) ==
    LET ei == IF layer.editingInfo # None THEN layer.editingInfo ELSE layer.editinginfo
    IN  IF ei # None /\ ei[1].isdict
        THEN PyOr(ei[1].lastEditDate, ei[1].last_edit_date)
        ELSE PyOr(layer.lastEditDate, layer.updateDate)

\* Mutant of LastEditOutcomes: a lookup that raised still reports a date.
LastEditOutcomes_StaleOnRaise(layer) ==
    {[raised |-> FALSE, value |-> SafeGetLastEditMs(layer)]}
    \cup (IF layer.flaky
          THEN {[raised |-> TRUE, value |-> PyOr(SafeGetLastEditMs(layer), Some(1))]}
          ELSE {})

\* The ways one call of _safe_get_last_edit_ms ends: the reads succeed, or a
\* read of the properties raises and the except clause returns None.
LastEditOutcomes(layer) ==
    {[raised |-> FALSE, value |-> SafeGetLastEditMs(layer)]}
    \cup (IF layer.flaky THEN {[raised |-> TRUE, value |-> None]} ELSE {})

\* The ways one call of _safe_count ends: the count, or None when the query
\* raises, which it may on a flaky layer.
CountTries(layer) ==
    {[raised |-> c = None, value |-> c] :
        c \in {x \in SafeCountOutcomes(layer) : x # None \/ layer.flaky}}

\* (a == b) if (a is not None and b is not None) else None
MatchOrNone(a, b) == IF a # None /\ b # None THEN Some(a = b) ELSE None

\* Mutant of ItemEntryStatus: the timestamps are not looked at.
ItemEntryStatus_CountsOnly(hc, gc, ht, gt) ==
    IF hc = gc THEN "ok" ELSE "mismatch"

\* Line 134.
ItemEntryStatus(hc, gc, ht, gt) ==
    IF hc = gc /\ (ht = None \/ gt = None \/ ht = gt) THEN "ok" ELSE "mismatch"

\* Mutant of MissingOnGuestItem: the absent guest layer is given a count.
MissingOnGuestItem_ZeroCount(entry, hc, ht) ==
    Merge(entry, [status |-> "missing_on_guest", host_count |-> hc,
                  host_last_edit |-> ht, guest_count |-> Some(0),
                  guest_last_edit |-> None])

\* Lines 118-125.
MissingOnGuestItem(entry, hc, ht) ==
    Merge(entry, [status |-> "missing_on_guest", host_count |-> hc,
                  host_last_edit |-> ht, guest_count |-> None,
                  guest_last_edit |-> None])

\* Lines 133-141.
BothSidesItem(entry, hc, gc, ht, gt) ==
    Merge(entry, [status |-> ItemEntryStatus(hc, gc, ht, gt),
                  host_count |-> hc, guest_count |-> gc,
                  count_match |-> MatchOrNone(hc, gc),
                  host_last_edit |-> ht, guest_last_edit |-> gt,
                  timestamp_match |-> MatchOrNone(ht, gt)])

\* Lines 147-156.
ExtraOnGuestItem(key, g, gc, gt) ==
    [kind |-> kind, key |-> key, name |-> EntryName(g, key),
     status |-> "extra_on_guest", host_count |-> None, guest_count |-> gc,
     host_last_edit |-> None, guest_last_edit |-> gt]

\* Mutant of ItemsOverallStatus: a layer the host lacks is not a mismatch.
ItemsOverallStatus_ExtraIsOk(entries) ==
    IF \E i \in 1..Len(entries) : entries[i].status \notin {"ok", "extra_on_guest"}
    THEN "mismatch" ELSE "ok"

\* Lines 162-164.
ItemsOverallStatus(entries) ==
    IF \E i \in 1..Len(entries) : entries[i].status \notin {"ok"}
    THEN "mismatch" ELSE "ok"

\* What the log keeps of the two lookups on one layer.
LoggedLookups(side, key, c, t) ==
    <<Logged(side, key, "count", 0, IF c.raised THEN "error" ELSE "ok"),
      Logged(side, key, "last_edit", 0, IF t.raised THEN "error" ELSE "ok")>>

\* Lines 72-105 and the entry into compare_collection("layers").
ItemsOpen ==
    /\ pc = "i_start"
    /\ IF Opening.how = "raise"
       THEN /\ pc' = "raised"
            /\ UNCHANGED <<kind, todo, result>>
       ELSE IF Opening.how = "return"
       THEN /\ pc' = "done"
            /\ result' = Some(Opening.payload)
            /\ UNCHANGED <<kind, todo>>
       ELSE /\ pc' = "i_host_loop"
            /\ kind' = "layers"
            /\ todo' = DictKeys(HostMap.layers)
            /\ UNCHANGED result
    /\ UNCHANGED <<env, args, cur, results, queries, fldVars>>

\* One iteration of the loop over host_objs.items() (lines 111-142), or the
\* loop's end.
ItemsHostKey ==
    /\ pc = "i_host_loop"
    /\ IF todo = <<>>
       THEN /\ pc' = "i_guest_loop"
            /\ todo' = DictKeys(GuestObjs)
            /\ UNCHANGED <<results, queries>>
       ELSE LET key == Head(todo)
                h == DictGet(HostObjs, key, NoLayer)
                g == DictGet(GuestObjs, key, NoLayer)
                entry == [kind |-> kind, key |-> key, name |-> EntryName(h, key)]
            IN  IF ~DictHas(GuestObjs, key)
                THEN \E hc \in CountTries(h), ht \in LastEditOutcomes(h) :
                        /\ results' = AppendResult(MissingOnGuestItem(entry, hc.value, ht.value))
                        /\ queries' = queries \o LoggedLookups("host", key, hc, ht)
                        /\ todo' = Tail(todo)
                        /\ UNCHANGED pc
                ELSE \E hc \in CountTries(h), gc \in CountTries(g),
                        ht \in LastEditOutcomes(h), gt \in LastEditOutcomes(g) :
                        /\ results' = AppendResult(
                              BothSidesItem(entry, hc.value, gc.value, ht.value, gt.value))
                        /\ queries' = queries
                              \o <<LoggedLookups("host", key, hc, ht)[1],
                                   LoggedLookups("guest", key, gc, gt)[1],
                                   LoggedLookups("host", key, hc, ht)[2],
                                   LoggedLookups("guest", key, gc, gt)[2]>>
                        /\ todo' = Tail(todo)
                        /\ UNCHANGED pc
    /\ UNCHANGED <<env, args, kind, cur, result, fldVars>>

\* One iteration of the loop over guest_objs.keys() (lines 144-156); at its
\* end the next collection is compared, or the payload is built and returned
\* (lines 159-180).
ItemsGuestKey ==
    /\ pc = "i_guest_loop"
    /\ IF todo = <<>>
       THEN IF kind = "layers"
            THEN /\ kind' = "tables"
                 /\ pc' = "i_host_loop"
                 /\ todo' = DictKeys(HostMap.tables)
                 /\ UNCHANGED <<results, queries, result>>
            ELSE /\ pc' = "done"
                 /\ result' = Some([status |-> ItemsOverallStatus(results.layers \o results.tables),
                                    host_item_id |-> args.host_item_id,
                                    guest_item_id |-> args.guest_item_id,
                                    layers |-> results.layers,
                                    tables |-> results.tables])
                 /\ UNCHANGED <<kind, todo, results, queries>>
       ELSE LET key == Head(todo)
                g == DictGet(GuestObjs, key, NoLayer)
            IN  IF DictHas(HostObjs, key)
                THEN /\ todo' = Tail(todo)
                     /\ UNCHANGED <<pc, kind, results, queries, result>>
                ELSE \E gc \in CountTries(g), gt \in LastEditOutcomes(g) :
                        /\ results' = AppendResult(ExtraOnGuestItem(key, g, gc.value, gt.value))
                        /\ queries' = queries \o LoggedLookups("guest", key, gc, gt)
                        /\ todo' = Tail(todo)
                        /\ UNCHANGED <<pc, kind, result>>
    /\ UNCHANGED <<env, args, cur, fldVars>>

NextItems == ItemsOpen \/ ItemsHostKey \/ ItemsGuestKey

\* ==================================================== pair_items_in_groups
\* The property names an item may keep its origin item id under (lines
\* 554-561).
OriginKeys ==
    <<"originItemID", "originItemId", "sourceItemID", "sourceItemId", "sourceitemid",
      "source_service_item_id">>

\* The loop of _extract_origin_host_id: the first property of a true value.
RECURSIVE ExtractLoop(_, _)
ExtractLoop(props, keys) ==
    IF keys = <<>> THEN ""
    ELSE IF DictGet(props, Head(keys), "") # "" THEN DictGet(props, Head(keys), "")
    ELSE ExtractLoop(props, Tail(keys))

\* _extract_origin_host_id: "" stands for None. The properties are the
\* item's _properties, or its properties when those are None or empty.
ExtractOriginHostId(item) ==
    LET props == IF item._properties # <<>> THEN item._properties ELSE item.properties
    IN  ExtractLoop(props, OriginKeys)

\* groups.get on each portal: the group is found, is None, or the request
\* raises.
GroupGet(side) == env[side].group

\* list_group_items(g) or []: the listing, or [] when content() raises.
ListGroupItems(side) == IF env[side].content = "ok" THEN env[side].items ELSE <<>>

\* Lines 598-600.
RECURSIVE OnlyFeatureServices(_)
OnlyFeatureServices(items) ==
    IF items = <<>> THEN <<>>
    ELSE IF Head(items).type = "Feature Service"
    THEN <<Head(items)>> \o OnlyFeatureServices(Tail(items))
    ELSE OnlyFeatureServices(Tail(items))

StrictFilter(items) == IF args.strict_type THEN OnlyFeatureServices(items) ELSE items

\* getattr(i, "title", "") or "", getattr(i, "type", "") or "": a title or
\* type that is None counts as "".
OrEmpty(s) == IF s = NoValue THEN "" ELSE s

\* Mutant of TitleTypeKey: the type is left out of the key.
TitleTypeKey_TitleOnly(item) == <<OrEmpty(item.title), "">>

TitleTypeKey(item) == <<OrEmpty(item.title), OrEmpty(item.type)>>

\* Lines 603-610: the two maps of the guest items.
RECURSIVE GuestByOrigin(_, _)
GuestByOrigin(guest_items, acc) ==
    IF guest_items = <<>> THEN acc
    ELSE LET gi == Head(guest_items)
             oid == ExtractOriginHostId(gi)
         IN  GuestByOrigin(Tail(guest_items),
                           IF oid # "" THEN DictSet(acc, oid, gi) ELSE acc)

\* Mutant of GuestByKey: the first guest item of a (title, type) is kept.
RECURSIVE GuestByKey_FirstWins(_, _)
GuestByKey_FirstWins(guest_items, acc) ==
    IF guest_items = <<>> THEN acc
    ELSE GuestByKey_FirstWins(Tail(guest_items),
            IF DictHas(acc, TitleTypeKey(Head(guest_items))) THEN acc
            ELSE DictSet(acc, TitleTypeKey(Head(guest_items)), Head(guest_items)))


RECURSIVE GuestByKey(_, _)
GuestByKey(guest_items, acc) ==
    IF guest_items = <<>> THEN acc
    ELSE GuestByKey(Tail(guest_items), DictSet(acc, TitleTypeKey(Head(guest_items)), Head(guest_items)))

\* Mutant of MatchFor: the title is looked up before the origin id.
MatchFor_TitleFirst(hi, guest_by_origin, guest_by_key) ==
    IF DictHas(guest_by_key, TitleTypeKey(hi))
    THEN Some(DictGet(guest_by_key, TitleTypeKey(hi), hi))
    ELSE IF DictHas(guest_by_origin, hi.id)
    THEN Some(DictGet(guest_by_origin, hi.id, hi))
    ELSE None

\* Lines 614-617: the guest item for a host item, or None.
MatchFor(hi, guest_by_origin, guest_by_key) ==
    IF DictHas(guest_by_origin, hi.id)
    THEN Some(DictGet(guest_by_origin, hi.id, hi))
    ELSE IF DictHas(guest_by_key, TitleTypeKey(hi))
    THEN Some(DictGet(guest_by_key, TitleTypeKey(hi), hi))
    ELSE None

\* Lines 584-610: the groups are looked up (unguarded), their content is
\* listed and filtered, and the guest maps are built.
PairOpen ==
    /\ pc = "p_start"
    /\ IF GroupGet("host") = "raise" \/ GroupGet("guest") = "raise"
       THEN /\ pc' = "raised"
            /\ UNCHANGED <<todo, cur, result>>
       ELSE IF GroupGet("host") = "none" \/ GroupGet("guest") = "none"
       THEN /\ pc' = "done"
            /\ result' = Some(<<>>)
            /\ UNCHANGED <<todo, cur>>
       ELSE LET host_items == StrictFilter(ListGroupItems("host"))
                guest_items == StrictFilter(ListGroupItems("guest"))
            IN  /\ pc' = "p_loop"
                /\ todo' = host_items
                /\ cur' = [guest_by_origin |-> GuestByOrigin(guest_items, <<>>),
                           guest_by_key |-> GuestByKey(guest_items, <<>>),
                           pairs |-> <<>>]
                /\ UNCHANGED result
    /\ UNCHANGED <<env, args, kind, results, queries, fldVars>>

\* One iteration of the loop over host_items (lines 613-619), or the return
\* of the pairs.
PairHost ==
    /\ pc = "p_loop"
    /\ IF todo = <<>>
       THEN /\ pc' = "done"
            /\ result' = Some(cur.pairs)
            /\ UNCHANGED <<todo, cur>>
       ELSE LET hi == Head(todo)
                gi == MatchFor(hi, cur.guest_by_origin, cur.guest_by_key)
            IN  /\ cur' = IF gi # None
                          THEN [cur EXCEPT !.pairs = Append(@, <<hi, gi[1]>>)]
                          ELSE cur
                /\ todo' = Tail(todo)
                /\ UNCHANGED <<pc, result>>
    /\ UNCHANGED <<env, args, kind, results, queries, fldVars>>

NextPairs == PairOpen \/ PairHost

\* ------------------------------------------------------------ initial states
FieldDesc(n, t) == [name |-> n, type |-> t]

\* A portal's item that is found and opens as a feature service of the given
\* layers and tables.
Service(layers, tables) ==
    [item |-> "found", opens |-> "ok", layers |-> layers, tables |-> tables]

\* The arguments of a record comparison of the items "h1" and "g1".
Args(chunk_size, ignore_fields, layer_keys) ==
    [host_item_id |-> "h1", guest_item_id |-> "g1", chunk_size |-> chunk_size,
     ignore_fields |-> ignore_fields, layer_keys |-> layer_keys]

Layer(name, lid, fields, oid, gid, pagination, rows) ==
    [name |-> name, lid |-> lid, addr |-> 0, fields |-> fields,
     objectIdField |-> oid, globalIdField |-> gid, shapeFieldName |-> "",
     geometryField |-> "", supportsPagination |-> pagination, pageCap |-> 0,
     rows |-> rows]

IdleCompare ==
    /\ pc = "start"
    /\ kind = "layers"
    /\ todo = <<>>
    /\ cur = NoCur
    /\ results = [layers |-> <<>>, tables |-> <<>>]
    /\ queries = <<>>
    /\ result = None

IdleFields ==
    /\ fLayer = NoLayer
    /\ fIgnore = {}
    /\ fOut = None

\* The rows of the two "Parcels" layers: the host spells its fields in upper
\* case, the guest in lower case and in another order.
IdValues == {"1", "2"}
NameValues == {"a"}
HostRowSet == {[ID |-> i, NAME |-> n] : i \in IdValues, n \in NameValues}
GuestRowSet == {[id |-> i, name |-> n] : i \in IdValues, n \in NameValues}

HostParcels(pagination, rows) ==
    Layer("Parcels", Some(0),
          <<FieldDesc("OBJECTID", "esriFieldTypeOID"),
            FieldDesc("ID", "esriFieldTypeString"),
            FieldDesc("NAME", "esriFieldTypeString"),
            FieldDesc("Shape", "esriFieldTypeGeometry")>>,
          "OBJECTID", "", pagination, rows)

GuestParcels(pagination, rows) ==
    Layer("Parcels", Some(0),
          <<FieldDesc("objectid", "esriFieldTypeOID"),
            FieldDesc("name", "esriFieldTypeString"),
            FieldDesc("id", "esriFieldTypeString")>>,
          "objectid", "", pagination, rows)

ChunkSizes == (0 - 1)..MaxChunk

\* One layer on each side under the same key, any rows, any chunk size.
Init ==
    /\ \E hp \in BOOLEAN, gp \in BOOLEAN,
          hr \in SeqsUpTo(HostRowSet, MaxRows), gr \in SeqsUpTo(GuestRowSet, MaxRows) :
          env = [host |-> Service(<<HostParcels(hp, hr)>>, <<>>),
                 guest |-> Service(<<GuestParcels(gp, gr)>>, <<>>)]
    /\ \E c \in ChunkSizes :
          args = Args(c, {}, {})
    /\ IdleCompare
    /\ IdleFields

Spec == Init /\ [][Next]_vars

\* --------------------------------------------- the field reconciler alone
\* _get_comparable_fields called on one layer.
ApplyComparableFields ==
    /\ fOut = None
    /\ fOut' = Some(GetComparableFields(fLayer, fIgnore))
    /\ UNCHANGED <<fLayer, fIgnore, cmpVars>>

NextFields == ApplyComparableFields

\* Field metadata of up to MaxFields descriptors: named or nameless, of a
\* plain or of the geometry type, spelled in either case.
MetaNames == {"", "OBJECTID", "NAME", "name", "GlobalID", "Shape_Area", "GEOM"}
MetaTypes == {"esriFieldTypeString", "esriFieldTypeGeometry"}
MetaFields == {FieldDesc(n, t) : n \in MetaNames, t \in MetaTypes}

\* shapeFieldName and geometryField as a service may declare them.
ShapeDeclarations == {<<"", "">>, <<"GEOM", "">>, <<"", "GEOM">>}

InitFields ==
    /\ \E fields \in SeqsUpTo(MetaFields, MaxFields),
          oid \in {"", "OBJECTID", "ObjectId"},
          gid \in {"", "GlobalID"},
          shp \in ShapeDeclarations :
          fLayer = [Layer("Parcels", Some(0), fields, oid, gid, FALSE, <<>>)
                      EXCEPT !.shapeFieldName = shp[1], !.geometryField = shp[2]]
    /\ fIgnore \in SUBSET {"objectid", "NAME"}
    /\ fOut = None
    /\ env = [host |-> Service(<<>>, <<>>), guest |-> Service(<<>>, <<>>)]
    /\ args = Args(0, {}, {})
    /\ IdleCompare

SpecFields == InitFields /\ [][NextFields]_vars

\* ------------------------------------------------- layers of varied schema
RECURSIVE SubSeqsOf(_)
SubSeqsOf(s) ==
    IF s = <<>> THEN {<<>>}
    ELSE LET rest == SubSeqsOf(Tail(s))
         IN  rest \cup {<<Head(s)>> \o r : r \in rest}

StringFields(names) == [i \in 1..Len(names) |-> FieldDesc(names[i], "esriFieldTypeString")]

\* The one row a layer of the given schema may hold: a value for every field.
SchemaRow(fields) == [f \in {fields[i].name : i \in 1..Len(fields)} |-> "1"]

\* A declared id field is one of the layer's fields, or is not declared.
Declarable(names, ids) == {""} \cup (ids \cap Range(names))

SchemaLayersOf(names, oids, gids, pagination) ==
    {Layer("Parcels", Some(0), StringFields(names), d[1], d[2], pagination, rows) :
        d \in Declarable(names, oids) \X Declarable(names, gids),
        rows \in {<<>>, <<SchemaRow(StringFields(names))>>}}

SchemaLayers(pool, oids, gids, pagination) ==
    UNION {SchemaLayersOf(names, oids, gids, pagination) : names \in SubSeqsOf(pool)}

\* One layer on each side under the same key; each side holds any selection
\* of the fields, in its own spelling, and declares its id fields or not.
InitSchema ==
    /\ \E h \in SchemaLayers(<<"OBJECTID", "GlobalID", "STATUS", "NAME">>,
                             {"", "OBJECTID"}, {"", "GlobalID"}, TRUE),
          g \in SchemaLayers(<<"objectid", "GlobalID", "Status", "name">>,
                             {"", "objectid"}, {"", "GlobalID"}, FALSE) :
          env = [host |-> Service(<<h>>, <<>>), guest |-> Service(<<g>>, <<>>)]
    /\ \E ign \in SUBSET {"name"} :
          args = Args(1, ign, {})
    /\ IdleCompare
    /\ IdleFields

SpecSchema == InitSchema /\ [][Next]_vars

\* ---------------------------------------------- services of several layers
PlainFields ==
    <<FieldDesc("OBJECTID", "esriFieldTypeOID"), FieldDesc("NAME", "esriFieldTypeString")>>

\* A layer or table of the plain schema that holds no row or one row.
PlainLayers(name) ==
    {Layer(name, Some(0), PlainFields, "OBJECTID", "", TRUE, rows) :
        rows \in {<<>>, <<[OBJECTID |-> "1", NAME |-> "a"]>>}}

RECURSIVE Collections(_)
Collections(names) ==
    IF names = <<>> THEN {<<>>}
    ELSE LET rest == Collections(Tail(names))
         IN  rest \cup {<<l>> \o r : l \in PlainLayers(Head(names)), r \in rest}

Services ==
    {Service(ls, ts) :
        ls \in Collections(<<"Parcels", "Roads">>), ts \in Collections(<<"Owners">>)}

\* Any selection of two layers and one table on each side, with or without
\* a layer_keys filter.
InitService ==
    /\ \E h \in Services, g \in Services : env = [host |-> h, guest |-> g]
    /\ \E c \in {0, 1}, keys \in {{}, {"PARCELS"}} :
          args = Args(c, {}, keys)
    /\ IdleCompare
    /\ IdleFields

SpecService == InitService /\ [][Next]_vars

\* ------------------------------------------- layers with and without fields
\* A layer whose service publishes no field metadata.
BareLayer(name) == Layer(name, Some(0), <<>>, "", "", TRUE, <<>>)

MixedLayers(name) == PlainLayers(name) \cup {BareLayer(name)}

RECURSIVE MixedCollections(_)
MixedCollections(names) ==
    IF names = <<>> THEN {<<>>}
    ELSE LET rest == MixedCollections(Tail(names))
         IN  rest \cup {<<l>> \o r : l \in MixedLayers(Head(names)), r \in rest}

\* Any selection of two layers on each side, each with the plain schema or
\* with no field metadata: every entry status can occur.
InitMixed ==
    /\ \E hl \in MixedCollections(<<"Parcels", "Roads">>),
          gl \in MixedCollections(<<"Parcels", "Roads">>) :
          env = [host |-> Service(hl, <<>>), guest |-> Service(gl, <<>>)]
    /\ args = Args(0, {}, {})
    /\ IdleCompare
    /\ IdleFields

SpecMixed == InitMixed /\ [][Next]_vars

\* -------------------------------------------- services for the metadata
\* An editingInfo property: a dict or another mapping type, with its dates.
EditingInfo(isdict, a, b) == Some([isdict |-> isdict, lastEditDate |-> a, last_edit_date |-> b])

NoStamp == [editingInfo |-> None, editinginfo |-> None, lastEditDate |-> None, updateDate |-> None]

\* The places a service keeps its last edit date in.
Stamps ==
    {NoStamp,
     [NoStamp EXCEPT !.editingInfo = EditingInfo(TRUE, Some(5), None)],
     [NoStamp EXCEPT !.editingInfo = EditingInfo(TRUE, Some(0), Some(7))],
     [NoStamp EXCEPT !.editinginfo = EditingInfo(TRUE, None, Some(5))],
     [NoStamp EXCEPT !.editingInfo = EditingInfo(FALSE, Some(5), None)],
     [NoStamp EXCEPT !.lastEditDate = Some(7)],
     [NoStamp EXCEPT !.updateDate = Some(5)]}

\* A layer with its dates; a flaky layer is one whose count query and whose
\* properties may fail.
Timed(name, rows, stamp, flaky) ==
    Merge(Merge(Layer(name, Some(0), <<>>, "", "", FALSE, rows), stamp), [flaky |-> flaky])

ItemLayers ==
    [Parcels |-> {Timed("Parcels", <<>>, NoStamp, FALSE)}
                 \cup {Timed("Parcels", <<[OBJECTID |-> "1"]>>, s, FALSE) : s \in Stamps},
     Roads   |-> {Timed("Roads", <<[OBJECTID |-> "1"]>>, NoStamp, TRUE)},
     Owners  |-> {Timed("Parcels", <<>>,
                        [NoStamp EXCEPT !.editingInfo = EditingInfo(TRUE, Some(5), None)], FALSE),
                  Timed("Parcels", <<[OBJECTID |-> "1"]>>,
                        [NoStamp EXCEPT !.lastEditDate = Some(7)], TRUE)}]

RECURSIVE ItemCollections(_)
ItemCollections(slots) ==
    IF slots = <<>> THEN {<<>>}
    ELSE LET rest == ItemCollections(Tail(slots))
         IN  rest \cup {<<l>> \o r : l \in ItemLayers[Head(slots)], r \in rest}

\* A service of the layers "Parcels" and "Roads" and of a table that is
\* named "Parcels" too, each present or not.
ItemServices ==
    {Service(ls, ts) : ls \in ItemCollections(<<"Parcels", "Roads">>),
                       ts \in ItemCollections(<<"Owners">>)}

ItemArgs == [host_item_id |-> "h1", guest_item_id |-> "g1"]

IdleItems ==
    /\ pc = "i_start"
    /\ kind = "layers"
    /\ todo = <<>>
    /\ cur = NoCur
    /\ results = [layers |-> <<>>, tables |-> <<>>]
    /\ queries = <<>>
    /\ result = None

InitItems ==
    /\ \E h \in ItemServices, g \in ItemServices : env = [host |-> h, guest |-> g]
    /\ args = ItemArgs
    /\ IdleItems
    /\ IdleFields

SpecItems == InitItems /\ [][NextItems]_vars

\* ----------------------------------------------------- groups and items
Item(id, title, type, props) ==
    [id |-> id, title |-> title, type |-> type, _properties |-> <<>>, properties |-> props]

Titles == {"Roads", "Parcels"}
Types == {"Feature Service", "Web Map"}

\* The origin metadata a replicated item carries: none, the id of a host
\* item under one of the property names, or two names at once.
OriginProps ==
    {<<>>,
     <<<<"originItemID", "h1">>>>,
     <<<<"sourceItemId", "h2">>>>,
     <<<<"sourceItemId", "h1">>, <<"originItemID", "x">>>>}

HostItems(id) == {Item(id, t, ty, <<>>) : t \in Titles, ty \in Types}
GuestItems(id) == {Item(id, t, ty, p) : t \in Titles, ty \in Types, p \in OriginProps}

\* The content of a group: up to two items, of distinct ids.
HostListings ==
    {<<>>} \cup {<<a>> : a \in HostItems("h1")}
           \cup {<<a, b>> : a \in HostItems("h1"), b \in HostItems("h2")}

GuestListings ==
    {<<>>} \cup {<<a>> : a \in GuestItems("g1")}
           \cup {<<a, b>> : a \in GuestItems("g1"), b \in GuestItems("g2")}

\* A group that is found and whose content can be listed.
Group(items) == [group |-> "found", content |-> "ok", items |-> items]

PairArgs(strict_type) ==
    [host_group_id |-> "hg", guest_group_id |-> "gg", strict_type |-> strict_type]

IdlePairs ==
    /\ pc = "p_start"
    /\ kind = "layers"
    /\ todo = <<>>
    /\ cur = NoCur
    /\ results = [layers |-> <<>>, tables |-> <<>>]
    /\ queries = <<>>
    /\ result = None

InitPairs ==
    /\ \E h \in HostListings, g \in GuestListings :
          env = [host |-> Group(h), guest |-> Group(g)]
    /\ \E st \in BOOLEAN : args = PairArgs(st)
    /\ IdlePairs
    /\ IdleFields

SpecPairs == InitPairs /\ [][NextPairs]_vars

\* ------------------------------------- the three operations, any collaborator
\* A layer of the plain schema that both compare operations can read.
CoreLayers ==
    {Merge(Merge(l, NoStamp), [flaky |-> TRUE]) : l \in PlainLayers("Parcels")}

\* An item of one layer: its lookup finds it, returns None or raises; its
\* opening succeeds or raises.
CoreServices ==
    {[item |-> i, opens |-> o, layers |-> <<l>>, tables |-> <<>>] :
        i \in {"found", "none", "raise"}, o \in {"ok"} \cup ExcTexts, l \in CoreLayers}

\* A group: its lookup finds it, returns None or raises; its content lists
\* or raises.
CoreGroups(listings) ==
    {[group |-> g, content |-> c, items |-> l] :
        g \in {"found", "none", "raise"}, c \in {"ok", "raise"}, l \in listings}

InitCore ==
    /\ \/ /\ \E h \in CoreServices, g \in CoreServices : env = [host |-> h, guest |-> g]
          /\ \/ args = Args(1, {}, {}) /\ IdleCompare
             \/ args = ItemArgs /\ IdleItems
       \/ /\ \E h \in CoreGroups({<<Item("h1", "Roads", "Feature Service", <<>>)>>}),
                g \in CoreGroups({<<Item("g1", "Roads", "Feature Service", <<>>)>>,
                                  <<Item("g1", "Parcels", "Feature Service",
                                         <<<<"originItemID", "h1">>>>)>>}) :
                env = [host |-> h, guest |-> g]
          /\ args = PairArgs(TRUE)
          /\ IdlePairs
    /\ IdleFields

NextCore == Next \/ NextItems \/ NextPairs

SpecCore == InitCore /\ [][NextCore]_vars

\* ------------------------------------------- services that cap their pages
\* A paginating layer whose service returns at most cap rows per request
\* (its maxRecordCount), whatever result_record_count asks for.
Capped(layer, cap) == [layer EXCEPT !.pageCap = cap]

\* One paginating layer on each side under the same key, read with chunk
\* size MaxChunk; each service caps its pages at one row or does not cap.
InitCapped ==
    /\ \E hcap \in {0, 1}, gcap \in {0, 1},
          hr \in SeqsUpTo(HostRowSet, MaxRows), gr \in SeqsUpTo(GuestRowSet, MaxRows) :
          env = [host |-> Service(<<Capped(HostParcels(TRUE, hr), hcap)>>, <<>>),
                 guest |-> Service(<<Capped(GuestParcels(TRUE, gr), gcap)>>, <<>>)]
    /\ args = Args(MaxChunk, {}, {})
    /\ IdleCompare
    /\ IdleFields

SpecCapped == InitCapped /\ [][Next]_vars


\* ------------------------------------- layers with fields that differ by case
\* One layer on each side under the same key; a side may hold two fields
\* whose names differ by case only, and the two sides spell their fields
\* differently.
InitSpelling ==
    /\ \E h \in SchemaLayers(<<"NAME", "Name", "STATUS">>, {""}, {""}, TRUE),
          g \in SchemaLayers(<<"name", "NAME", "Status">>, {""}, {""}, TRUE) :
          env = [host |-> Service(<<h>>, <<>>), guest |-> Service(<<g>>, <<>>)]
    /\ \E c \in {0, 1} : args = Args(c, {}, {})
    /\ IdleCompare
    /\ IdleFields

SpecSpelling == InitSpelling /\ [][Next]_vars


\* --------------------------------------------- services with layers alike
\* The second layer of a service: it has layer id 1 and may bear the name of
\* the first.
SecondLayers ==
    {[l EXCEPT !.lid = Some(1)] : l \in PlainLayers("Parcels") \cup PlainLayers("Roads")}

\* The layer "Parcels", alone or followed by a second layer.
TwinCollections ==
    {<<l>> : l \in PlainLayers("Parcels")}
        \cup {<<l, m>> : l \in PlainLayers("Parcels"), m \in SecondLayers}

InitTwins ==
    /\ \E hl \in TwinCollections, gl \in TwinCollections :
          env = [host |-> Service(hl, <<>>), guest |-> Service(gl, <<>>)]
    /\ args = Args(0, {}, {})
    /\ IdleCompare
    /\ IdleFields

SpecTwins == InitTwins /\ [][Next]_vars


\* ------------------------------------------------- the key resolver alone
\* _layer_key called on one layer handle.
ApplyLayerKey ==
    /\ fOut = None
    /\ fOut' = Some(LayerKey(fLayer))
    /\ UNCHANGED <<fLayer, fIgnore, cmpVars>>

NextKeys == ApplyLayerKey

\* Handles with and without a name in either place, with and without an id
\* in each of the three places (0 included), whose reads raise or not.
KeyHandles ==
    {Handle(pn, an, pid, plid, lid, ne, ie, addr) :
        pn \in {"", "Parcels"}, an \in {"", "Roads"},
        pid \in {None, Some(0), Some(1)}, plid \in {None, Some(2)},
        lid \in {None, Some(3)}, ne \in BOOLEAN, ie \in BOOLEAN, addr \in {7, 8}}

InitKeys ==
    /\ fLayer \in KeyHandles
    /\ fIgnore = {}
    /\ fOut = None
    /\ env = [host |-> Service(<<>>, <<>>), guest |-> Service(<<>>, <<>>)]
    /\ args = Args(0, {}, {})
    /\ IdleCompare

SpecKeys == InitKeys /\ [][NextKeys]_vars


\* ------------------------------------------------------ reading a result
AllEntries == results.layers \o results.tables

\* The entries whose record diff was taken.
Compared == {e \in Range(AllEntries) : e.status \in {"ok", "mismatch"}}

\* The compared entry whose two counters are still the iteration's locals.
ComparedNow ==
    {e \in Compared : /\ pc \notin {"host_query", "guest_query"}
                      /\ e.kind = cur.entry.kind
                      /\ e.key = cur.key}

HostLayerOf(e) == DictGet(HostMap[e.kind], e.key, NoLayer)
GuestLayerOf(e) == DictGet(GuestMap[e.kind], e.key, NoLayer)

\* Both endpoints of an entry return exactly the requested window.
ExactWindows(e) == HostLayerOf(e).pageCap = 0 /\ GuestLayerOf(e).pageCap = 0

\* The projection of a stored row on the compared fields, by the logical
\* (case-insensitive) field name.
Projected(row, names) ==
    [i \in 1..Len(names) |->
        row[CHOOSE f \in DOMAIN row : Lower(f) = Lower(names[i])]]

ProjectedRows(layer, names) ==
    [i \in 1..Len(layer.rows) |-> Projected(layer.rows[i], names)]

Occurrences(tuples, t) == Cardinality({i \in 1..Len(tuples) : tuples[i] = t})

\* A Counter read as a multiset: tuple -> count.
BagOfCounter(counter) ==
    [t \in Range(DictKeys(counter)) |->
        counter[CHOOSE i \in 1..Len(counter) : counter[i][1] = t][2]]

CountIn(counter, t) ==
    IF t \in DOMAIN BagOfCounter(counter) THEN BagOfCounter(counter)[t] ELSE 0

\* The attribute mapping an entry reports for tuple t.
AttributesOf(names, t) == [f \in Range(names) |-> t[CHOOSE i \in 1..Len(names) : names[i] = f]]

\* only lists each tuple t of surplus[t] > 0 once, with that count, and
\* lists nothing else.
ListsExactly(only, names, tuples, surplus) ==
    /\ \A t \in tuples :
          LET at == {i \in 1..Len(only) : only[i].attributes = AttributesOf(names, t)}
          IN  /\ (at # {}) <=> (surplus[t] > 0)
              /\ Cardinality(at) <= 1
              /\ \A i \in at : only[i].count = surplus[t]
    /\ \A i \in 1..Len(only) :
          \E t \in tuples : only[i].attributes = AttributesOf(names, t)

\* C1: the record delta is a pure multiset difference.  For every value
\* tuple t, host_only holds an entry for t iff the host counts t more often
\* than the guest, with count host_count(t) - guest_count(t); guest_only
\* symmetrically; a tuple with equal counts is in neither list.  Stated of
\* the two counters the delta is taken of, and, for endpoints that return
\* the requested windows, of the rows the two layers hold.
C1_PureMultisetDifference ==
    /\ \A e \in ComparedNow :
          LET hcnt == cur.host_counter
              gcnt == cur.guest_counter
              tuples == Range(DictKeys(hcnt)) \cup Range(DictKeys(gcnt))
          IN  /\ ListsExactly(e.host_only, e.fields_compared, tuples,
                              [t \in tuples |-> CountIn(hcnt, t) - CountIn(gcnt, t)])
              /\ ListsExactly(e.guest_only, e.fields_compared, tuples,
                              [t \in tuples |-> CountIn(gcnt, t) - CountIn(hcnt, t)])
    /\ \A e \in Compared :
          ExactWindows(e) =>
          LET hrows == ProjectedRows(HostLayerOf(e), e.fields_compared)
              grows == ProjectedRows(GuestLayerOf(e), e.fields_compared)
              tuples == Range(hrows) \cup Range(grows)
          IN  /\ ListsExactly(e.host_only, e.fields_compared, tuples,
                              [t \in tuples |-> Occurrences(hrows, t) - Occurrences(grows, t)])
              /\ ListsExactly(e.guest_only, e.fields_compared, tuples,
                              [t \in tuples |-> Occurrences(grows, t) - Occurrences(hrows, t)])

\* C1 witness: the spec's scenario, host (1,'a') x3 against guest (1,'a') x1,
\* compared: host_only is the one entry of count 2, guest_only is empty.
C1_Witness ==
    \E e \in ComparedNow :
        /\ Occurrences(ProjectedRows(HostLayerOf(e), e.fields_compared), <<"1", "a">>) = 3
        /\ Occurrences(ProjectedRows(GuestLayerOf(e), e.fields_compared), <<"1", "a">>) = 1
        /\ Len(GuestLayerOf(e).rows) = 1
        /\ e.host_only = <<[count |-> 2, attributes |-> [ID |-> "1", NAME |-> "a"]]>>
        /\ e.guest_only = <<>>

\* C2: a layer present on both sides whose fields validate and whose
\* queries succeed is "ok" iff host_only and guest_only are both empty, that
\* is iff the two multisets of projected rows are equal; else "mismatch".
C2_OkIffMultisetsEqual ==
    /\ \A e \in Compared :
          /\ (e.status = "ok") <=> (e.host_only = <<>> /\ e.guest_only = <<>>)
          /\ ExactWindows(e) =>
                LET hrows == ProjectedRows(HostLayerOf(e), e.fields_compared)
                    grows == ProjectedRows(GuestLayerOf(e), e.fields_compared)
                IN  (e.status = "ok") <=>
                        \A t \in Range(hrows) \cup Range(grows) :
                            Occurrences(hrows, t) = Occurrences(grows, t)
    /\ \A e \in ComparedNow :
          (e.status = "ok") <=> (BagOfCounter(cur.host_counter) = BagOfCounter(cur.guest_counter))

\* C2 witness: a compared layer whose guest holds a row the host lacks while
\* every host row is matched: "mismatch" by guest_only alone.
C2_Witness ==
    \E e \in Compared :
        /\ e.status = "mismatch"
        /\ e.host_only = <<>>
        /\ e.guest_only # <<>>
        /\ HostLayerOf(e).rows # <<>>

\* C4: the delta is symmetric.  Taken with the two counters swapped it
\* returns the pair (guest_only, host_only) of the delta taken as given,
\* with the same counts and attributes.
C4_DeltaSymmetric ==
    \A e \in ComparedNow :
        CounterDelta(cur.guest_counter, cur.host_counter, e.fields_compared)
            = <<e.guest_only, e.host_only>>

\* C4 witness: a compared layer with surplus rows on both sides.
C4_Witness ==
    \E e \in ComparedNow :
        /\ e.host_only # <<>>
        /\ e.guest_only # <<>>
        /\ \E i \in 1..Len(e.host_only) : e.host_only[i].count = 2

\* The call's field order and field maps of a compared entry.
OrderOf(e) == FieldOrder(cur.fields_info)
HostFieldMapOf(e) == FieldMap(cur.fields_info, 2)
GuestFieldMapOf(e) == FieldMap(cur.fields_info, 3)

\* C3: chunk size does not change the result.  For endpoints that return
\* exactly the requested window, the multiset accumulated with the call's
\* chunk size (any value, 1 included, pagination supported or not) is the
\* multiset the single unbounded fetch (chunk_size 0) accumulates; and when
\* host and guest hold the same multiset of projected rows, host_only and
\* guest_only are both empty.
C3_ChunkSizeIrrelevant ==
    \A e \in ComparedNow :
        ExactWindows(e) =>
        /\ BagOfCounter(cur.host_counter) =
              BagOfCounter(BuildFeatureCounter(HostLayerOf(e), OrderOf(e), HostFieldMapOf(e), 0))
        /\ BagOfCounter(cur.guest_counter) =
              BagOfCounter(BuildFeatureCounter(GuestLayerOf(e), OrderOf(e), GuestFieldMapOf(e), 0))
        /\ LET hrows == ProjectedRows(HostLayerOf(e), e.fields_compared)
               grows == ProjectedRows(GuestLayerOf(e), e.fields_compared)
           IN  (\A t \in Range(hrows) \cup Range(grows) :
                    Occurrences(hrows, t) = Occurrences(grows, t))
               => (e.host_only = <<>> /\ e.guest_only = <<>>)

\* C3 witness: chunk size 1 on two paginating layers that hold the same
\* three rows in different orders, compared "ok" after one request per row
\* and the closing empty page on each side.
C3_Witness ==
    \E e \in ComparedNow :
        /\ ChunkSizeVal = 1
        /\ SupportsPagination(HostLayerOf(e)) /\ SupportsPagination(GuestLayerOf(e))
        /\ Len(HostLayerOf(e).rows) = 3
        /\ ProjectedRows(HostLayerOf(e), e.fields_compared)
              # ProjectedRows(GuestLayerOf(e), e.fields_compared)
        /\ e.status = "ok"
        /\ Len(queries) = 8

\* The compared entry appended by the step just taken.
JustCompared ==
    IF pc = "host_loop" /\ results[kind] # <<>>
    THEN ComparedNow \cap {results[kind][Len(results[kind])]}
    ELSE {}

Permuted(rows, p) == [i \in 1..Len(rows) |-> rows[p[i]]]

Reorderings(layer) ==
    {[layer EXCEPT !.rows = Permuted(layer.rows, p)] :
        p \in Permutations(1..Len(layer.rows))}

\* C5: the differ is insensitive to row order.  Whatever order the host
\* endpoint, the guest endpoint or both stream their rows in (pages cut the
\* stream wherever the chunk size puts them), host_only and guest_only hold
\* the same entries, with the same counts and attributes.
C5_RowOrderIrrelevant ==
    \A e \in JustCompared :
        \A h \in Reorderings(HostLayerOf(e)), g \in Reorderings(GuestLayerOf(e)) :
            LET delta == CounterDelta(
                    BuildFeatureCounter(h, OrderOf(e), HostFieldMapOf(e), ChunkSizeVal),
                    BuildFeatureCounter(g, OrderOf(e), GuestFieldMapOf(e), ChunkSizeVal),
                    e.fields_compared)
            IN  /\ Range(delta[1]) = Range(e.host_only)
                /\ Len(delta[1]) = Len(e.host_only)
                /\ Range(delta[2]) = Range(e.guest_only)
                /\ Len(delta[2]) = Len(e.guest_only)

\* C5 witness: a paginated comparison (chunk size 2) of a host that streams
\* three rows of two different tuples, so that a reordering moves a tuple
\* across the page boundary, with surplus on both sides.
C5_Witness ==
    \E e \in JustCompared :
        /\ ChunkSizeVal = 2
        /\ SupportsPagination(HostLayerOf(e))
        /\ Len(HostLayerOf(e).rows) = 3
        /\ Cardinality(Range(HostLayerOf(e).rows)) = 2
        /\ e.host_only # <<>>
        /\ e.guest_only # <<>>

\* ------------------------------------------------- the field reconciler
\* The exclusion rules as the specification words them, for one descriptor
\* of a layer under a caller's ignore set.
PassesRules(layer, ignore, field) ==
    /\ field.name # ""
    /\ \A x \in ignore : Lower(field.name) # Lower(x)
    /\ \A d \in {layer.objectIdField, layer.globalIdField,
                 layer.shapeFieldName, layer.geometryField} :
          d # "" => Lower(field.name) # Lower(d)
    /\ Lower(field.name) \notin {"shape", "shape_length", "shape_area"}
    /\ Lower(field.type) # "esrifieldtypegeometry"

\* The names of the fields that pass the rules, in metadata order.
PassingNames(layer, ignore) ==
    LET kept == SelectSeq(layer.fields, LAMBDA f : PassesRules(layer, ignore, f))
    IN  [i \in 1..Len(kept) |-> kept[i].name]

C9_OidFallback ==
    fOut # None =>
        /\ (/\ fLayer.fields # <<>>
            /\ fLayer.objectIdField # ""
            /\ PassingNames(fLayer, fIgnore) = <<>>)
           => fOut[1] = <<fLayer.objectIdField>>
        /\ fOut[1] = <<>> => (fLayer.fields = <<>> \/ fLayer.objectIdField = "")

\* C9 witness: a layer whose only fields are its object-id field and a
\* geometry field returns the declared object-id field.
C9_Witness ==
    /\ fOut = Some(<<"ObjectId">>)
    /\ fLayer.objectIdField = "ObjectId"
    /\ Len(fLayer.fields) = 2
    /\ fLayer.fields[1] = FieldDesc("OBJECTID", "esriFieldTypeString")
    /\ fLayer.fields[2].type = "esriFieldTypeGeometry"
    /\ fLayer.fields[2].name # ""

\* ----------------------------------------------- cross-side validation
\* The layer has a field of that name, compared case-insensitively.
LayerHasField(layer, name) ==
    \E i \in 1..Len(layer.fields) :
        layer.fields[i].name # "" /\ Lower(layer.fields[i].name) = Lower(name)

\* The keys of a collection that both services hold and the call lets through.
SharedKeys(k) ==
    {key \in Range(DictKeys(HostMap[k])) : DictHas(GuestMap[k], key) /\ AllowKey(key)}

\* The host comparable fields the guest layer has no field for.
AbsentOnGuest(k, key) ==
    SelectSeq(GetComparableFields(DictGet(HostMap[k], key, NoLayer), args.ignore_fields),
              LAMBDA f : ~LayerHasField(DictGet(GuestMap[k], key, NoLayer), f))

EntriesOf(k, key) == {e \in Range(results[k]) : e.key = key}

RecordQueriesOf(k, key) ==
    {i \in 1..Len(queries) : queries[i].kind = k /\ queries[i].key = key}

\* The entry is one of a failed field validation.
FieldError(e) == e.status = "error" /\ "missing_fields_on_guest" \in DOMAIN e

\* C6 without its list: a layer with a host comparable field absent on the
\* guest layer gets an "error" entry of the field validation that carries no
\* diff, and no request is issued on either of its two layers.
ErrorWithoutQueryWhenFieldAbsent ==
    \A k \in {"layers", "tables"} : \A key \in SharedKeys(k) :
        AbsentOnGuest(k, key) # <<>> =>
            /\ RecordQueriesOf(k, key) = {}
            /\ \A e \in EntriesOf(k, key) :
                  /\ FieldError(e)
                  /\ "host_only" \notin DOMAIN e
                  /\ "guest_only" \notin DOMAIN e
            /\ pc = "done" => EntriesOf(k, key) # {}

\* C6: when at least one host comparable field is missing on the guest
\* layer, the entry is "error" with missing_fields_on_guest listing exactly
\* the missing host field names, no record query is issued on the host or
\* the guest layer of the entry, and the entry carries no host_only or
\* guest_only.
C6_MissingFieldsExactlyListed ==
    /\ ErrorWithoutQueryWhenFieldAbsent
    /\ \A k \in {"layers", "tables"} : \A key \in SharedKeys(k) :
          AbsentOnGuest(k, key) # <<>> =>
              \A e \in EntriesOf(k, key) :
                  FieldError(e) => e.missing_fields_on_guest = AbsentOnGuest(k, key)

\* C7: the validation is against the guest layer's fields.  A host field is
\* listed in missing_fields_on_guest only if no field of the guest layer has
\* its name case-insensitively, and a layer all of whose host comparable
\* fields exist on the guest layer gets no field-validation error, whatever
\* role the guest gives the field and whichever side fell back to its
\* object-id field.
C7_ValidatedAgainstGuestLayer ==
    /\ \A e \in Range(AllEntries) :
          FieldError(e) =>
              \A i \in 1..Len(e.missing_fields_on_guest) :
                  ~LayerHasField(GuestLayerOf(e), e.missing_fields_on_guest[i])
    /\ \A k \in {"layers", "tables"} : \A key \in SharedKeys(k) :
          AbsentOnGuest(k, key) = <<>> => \A e \in EntriesOf(k, key) : ~FieldError(e)

\* ------------------------------------------------------- query failures
\* The record requests (not the count queries) that raised.
FailedRequests ==
    {i \in 1..Len(queries) : queries[i].op \in {"page", "all"} /\ queries[i].outcome # "ok"}

\* The entry reports a failed record request.
QueryError(e) == e.status = "error" /\ "missing_fields_on_guest" \notin DOMAIN e

\* The keys of a collection that get an entry: those of either service that
\* the call lets through.
ReportedKeys(k) ==
    {key \in Range(DictKeys(HostMap[k])) \cup Range(DictKeys(GuestMap[k])) : AllowKey(key)}

\* C10: a record request that raises on the host or the guest layer of one
\* entry makes exactly that entry "error", with a message that holds the
\* exception's text; no other entry is touched: once the call has returned,
\* every layer and table has its own single entry, an entry is a query error
\* only if a request on its own layer raised, and the call does return.
C10_FailureStaysInItsEntry ==
    /\ \A i \in FailedRequests :
          LET q == queries[i]
              mine == EntriesOf(q.kind, q.key)
          IN  /\ Cardinality(mine) = 1
              /\ \A e \in mine :
                    /\ QueryError(e)
                    /\ e.message = <<IF q.side = "host"
                                     THEN "Failed to query host layer: "
                                     ELSE "Failed to query guest layer: ", q.outcome>>
                    /\ "host_only" \notin DOMAIN e
    /\ \A e \in Range(AllEntries) :
          QueryError(e) => \E i \in FailedRequests :
                              queries[i].kind = e.kind /\ queries[i].key = e.key
    /\ pc = "done" =>
          /\ result # None
          /\ \A k \in {"layers", "tables"} :
                /\ \A key \in ReportedKeys(k) :
                      Cardinality({i \in 1..Len(results[k]) : results[k][i].key = key}) = 1
                /\ \A key \in SharedKeys(k) :
                      (\A i \in FailedRequests : queries[i].key # key \/ queries[i].kind # k)
                      => \A e \in EntriesOf(k, key) : e.status \in {"ok", "mismatch"}

\* C10 witness: the call has returned; the host request on layer "Parcels"
\* raised a timeout, the layer "Roads" after it was compared, and in the
\* table "Owners" the guest request raised; each has its own entry.
C10_Witness ==
    /\ pc = "done"
    /\ Len(results.layers) = 2
    /\ results.layers[1].key = "Parcels"
    /\ QueryError(results.layers[1])
    /\ results.layers[1].message = <<"Failed to query host layer: ", "timeout">>
    /\ results.layers[2].key = "Roads"
    /\ results.layers[2].status = "mismatch"
    /\ Len(results.tables) = 1
    /\ QueryError(results.tables[1])
    /\ results.tables[1].message = <<"Failed to query guest layer: ", "HTTP 500">>
    /\ result[1].status = "error"

\* ------------------------------------------------------------------- C11
\* The statuses of the entries of a returned record comparison.
ReturnedStatuses ==
    {e.status : e \in Range(result[1].layers \o result[1].tables)}

\* The record comparison has returned the payload of a finished comparison.
ReturnedComparison == pc = "done" /\ result # None /\ "layers" \in DOMAIN result[1]

\* C11: the overall status of a record comparison is "error" if an entry is
\* "error"; otherwise "mismatch" if an entry is "mismatch", "missing_on_guest"
\* or "missing_on_host"; otherwise "ok": "skipped" entries and an empty entry
\* list give "ok".
C11_OverallStatusByPriority ==
    ReturnedComparison =>
        /\ result[1].layers = results.layers
        /\ result[1].tables = results.tables
        /\ ("error" \in ReturnedStatuses) => result[1].status = "error"
        /\ ("error" \notin ReturnedStatuses
              /\ \E s \in ReturnedStatuses :
                    s \in {"mismatch", "missing_on_guest", "missing_on_host"})
           => result[1].status = "mismatch"
        /\ (ReturnedStatuses \subseteq {"ok", "skipped"}) => result[1].status = "ok"
        /\ ReturnedStatuses \subseteq
              {"ok", "skipped", "error", "mismatch", "missing_on_guest", "missing_on_host"}

\* C11 witness: the returned comparison holds an "error" entry next to a
\* "missing_on_guest" entry and is "error" overall.
C11_Witness ==
    /\ ReturnedComparison
    /\ {"error", "missing_on_guest"} \subseteq ReturnedStatuses
    /\ result[1].status = "error"

\* A returned comparison whose only entries are "skipped" is "ok".
C11_SkippedOnly ==
    ReturnedComparison /\ ReturnedStatuses = {"skipped"} /\ result[1].status = "ok"

\* ------------------------------------------------------------------- C12
\* The keys of a collection that only one service has, among the keys the
\* call lets through.
OnlyOnHost(k) ==
    {key \in Range(DictKeys(HostMap[k])) : ~DictHas(GuestMap[k], key) /\ AllowKey(key)}

OnlyOnGuest(k) ==
    {key \in Range(DictKeys(GuestMap[k])) : ~DictHas(HostMap[k], key) /\ AllowKey(key)}

EntryIndexes(k, key) == {i \in 1..Len(results[k]) : results[k][i].key = key}

\* The requests for attributes logged for a key, on either side.
AttributeQueriesOf(k, key) ==
    {i \in 1..Len(queries) : /\ queries[i].kind = k
                             /\ queries[i].key = key
                             /\ queries[i].op \in {"page", "all"}}

OneSided(e) == e.status \in {"missing_on_guest", "missing_on_host"}

\* C12: in a record comparison a key that only the host has yields one entry
\* "missing_on_guest" and a key that only the guest has yields one entry
\* "missing_on_host" (keys that a layer_keys filter lets through); such an
\* entry has empty host_only and guest_only, and no attribute query is issued
\* for its key on either side.
C12_OneSidedKeysReported ==
    \A k \in {"layers", "tables"} :
        /\ \A e \in Range(results[k]) :
              OneSided(e) =>
                 /\ e.key \in (IF e.status = "missing_on_guest"
                               THEN OnlyOnHost(k) ELSE OnlyOnGuest(k))
                 /\ e.host_only = <<>>
                 /\ e.guest_only = <<>>
        /\ \A key \in OnlyOnHost(k) \cup OnlyOnGuest(k) :
              /\ AttributeQueriesOf(k, key) = {}
              /\ Cardinality(EntryIndexes(k, key)) <= 1
              /\ ReturnedComparison =>
                    /\ Cardinality(EntryIndexes(k, key)) = 1
                    /\ \A i \in EntryIndexes(k, key) :
                          results[k][i].status =
                              (IF key \in OnlyOnHost(k)
                               THEN "missing_on_guest" ELSE "missing_on_host")

\* C12 witness: the returned comparison reports the layer "Parcels" as
\* missing on the guest and the layer "Roads" as missing on the host, while
\* the table "Owners", which both have, was queried.
C12_Witness ==
    /\ ReturnedComparison
    /\ \E e \in Range(results.layers) : e.key = "Parcels" /\ e.status = "missing_on_guest"
    /\ \E e \in Range(results.layers) : e.key = "Roads" /\ e.status = "missing_on_host"
    /\ \E e \in Range(results.tables) : e.status \in {"ok", "mismatch"}
    /\ AttributeQueriesOf("tables", "Owners") # {}

\* ------------------------------------------------------------------- C13
\* The keys of a collection that both services have.
KeysOnBoth(k) == {key \in Range(DictKeys(HostMap[k])) : DictHas(GuestMap[k], key)}

\* The entries of the metadata comparison for keys that both services have.
BothSides == {e \in Range(AllEntries) : "count_match" \in DOMAIN e}

\* C13: in the metadata comparison, the entry of a key present on both sides
\* is "ok" iff the host count equals the guest count and the host timestamp
\* is unknown, or the guest timestamp is unknown, or the two timestamps are
\* equal; otherwise it is "mismatch". Every shared key gets such an entry.
C13_OkIffCountsAndKnownStampsAgree ==
    /\ \A e \in BothSides :
          /\ e.key \in KeysOnBoth(e.kind)
          /\ e.status \in {"ok", "mismatch"}
          /\ (e.status = "ok") <=>
                (/\ e.host_count = e.guest_count
                 /\ \/ e.host_last_edit = None
                    \/ e.guest_last_edit = None
                    \/ e.host_last_edit = e.guest_last_edit)
    /\ pc = "done" =>
          \A k \in {"layers", "tables"} : \A key \in KeysOnBoth(k) :
              \E e \in BothSides : e.kind = k /\ e.key = key

\* C13 witness: equal counts with different known timestamps, reported as a
\* mismatch.
C13_Witness ==
    \E e \in BothSides :
        /\ e.host_count = Some(1)
        /\ e.guest_count = Some(1)
        /\ e.host_last_edit = Some(5)
        /\ e.guest_last_edit = Some(7)
        /\ e.status = "mismatch"

\* Both counts failed and one timestamp is unknown: the entry is "ok".
C13_BothCountsUnknown ==
    \E e \in BothSides :
        e.host_count = None /\ e.guest_count = None /\ e.status = "ok"

\* ------------------------------------------------------------------- C14
KeysOnlyOnHost(k) == {key \in Range(DictKeys(HostMap[k])) : ~DictHas(GuestMap[k], key)}

KeysOnlyOnGuest(k) == {key \in Range(DictKeys(GuestMap[k])) : ~DictHas(HostMap[k], key)}

\* What a layer's count and last edit date can be reported as.
CountsOf(layer) == {None, Some(Len(layer.rows))}
LastEditsOf(layer) == {None, SafeGetLastEditMs(layer)}

\* The metadata comparison has returned the payload of a finished comparison.
ReturnedItems == pc = "done" /\ result # None /\ "layers" \in DOMAIN result[1]

\* C14: in the metadata comparison a key that only the host has yields an
\* entry "missing_on_guest" with the host's metrics and guest_count =
\* guest_last_edit = None; a key that only the guest has yields an entry
\* "extra_on_guest" with the guest's metrics and host_count = host_last_edit
\* = None; layers are matched with layers and tables with tables only, so a
\* host layer and a guest table of the same key are not matched.
C14_OneSidedItemEntries ==
    \A k \in {"layers", "tables"} :
        /\ \A e \in Range(results[k]) :
              /\ e.kind = k
              /\ e.status = "missing_on_guest" =>
                    /\ e.key \in KeysOnlyOnHost(k)
                    /\ e.guest_count = None /\ e.guest_last_edit = None
                    /\ e.host_count \in CountsOf(DictGet(HostMap[k], e.key, NoLayer))
                    /\ e.host_last_edit \in LastEditsOf(DictGet(HostMap[k], e.key, NoLayer))
              /\ e.status = "extra_on_guest" =>
                    /\ e.key \in KeysOnlyOnGuest(k)
                    /\ e.host_count = None /\ e.host_last_edit = None
                    /\ e.guest_count \in CountsOf(DictGet(GuestMap[k], e.key, NoLayer))
                    /\ e.guest_last_edit \in LastEditsOf(DictGet(GuestMap[k], e.key, NoLayer))
              /\ e.key \in KeysOnBoth(k) => e.status \in {"ok", "mismatch"}
        /\ ReturnedItems =>
              /\ \A key \in KeysOnlyOnHost(k) :
                    /\ Cardinality(EntryIndexes(k, key)) = 1
                    /\ \A i \in EntryIndexes(k, key) : results[k][i].status = "missing_on_guest"
              /\ \A key \in KeysOnlyOnGuest(k) :
                    /\ Cardinality(EntryIndexes(k, key)) = 1
                    /\ \A i \in EntryIndexes(k, key) : results[k][i].status = "extra_on_guest"

\* C14 witness: the host has a layer "Parcels" and the guest a table
\* "Parcels"; the layer is missing on the guest with its count and date, the
\* table is extra on the guest, and they were not matched.
C14_Witness ==
    /\ ReturnedItems
    /\ Len(results.layers) = 1 /\ Len(results.tables) = 1
    /\ results.layers[1].key = "Parcels"
    /\ results.layers[1].status = "missing_on_guest"
    /\ results.layers[1].host_count = Some(1)
    /\ results.layers[1].host_last_edit = Some(7)
    /\ results.tables[1].key = "Parcels"
    /\ results.tables[1].status = "extra_on_guest"
    /\ results.tables[1].guest_count = Some(0)
    /\ results.tables[1].guest_last_edit = Some(5)

\* ------------------------------------------------------------------- C15
ReturnedItemStatuses ==
    {e.status : e \in Range(result[1].layers \o result[1].tables)}

\* C15: the overall status of a metadata comparison whose items opened is
\* "ok" iff every layer entry and every table entry is "ok"; with an entry
\* "mismatch", "missing_on_guest" or "extra_on_guest" it is "mismatch".
C15_ItemsOkIffAllOk ==
    ReturnedItems =>
        /\ result[1].layers = results.layers
        /\ result[1].tables = results.tables
        /\ (result[1].status = "ok") <=> (ReturnedItemStatuses \subseteq {"ok"})
        /\ (ReturnedItemStatuses \cap {"mismatch", "missing_on_guest", "extra_on_guest"} # {})
              => result[1].status = "mismatch"
        /\ result[1].status \in {"ok", "mismatch"}

\* C15 witness: every entry but one is "ok", the one is "extra_on_guest",
\* and the comparison is a mismatch.
C15_Witness ==
    /\ ReturnedItems
    /\ ReturnedItemStatuses = {"ok", "extra_on_guest"}
    /\ result[1].status = "mismatch"

\* ------------------------------------------------------------------- C16
\* The lookups of the metadata comparison that raised.
FailedLookups == {i \in 1..Len(queries) : queries[i].outcome = "error"}

\* The field of an entry that reports a lookup.
MetricOf(q) ==
    IF q.op = "count"
    THEN (IF q.side = "host" THEN "host_count" ELSE "guest_count")
    ELSE (IF q.side = "host" THEN "host_last_edit" ELSE "guest_last_edit")

AllKeys(k) == Range(DictKeys(HostMap[k])) \cup Range(DictKeys(GuestMap[k]))

\* C16: a count query or a last-edit lookup that fails on a layer does not
\* abort the metadata comparison: the layer's entry is produced with None as
\* the failed metric, the call does not leave by an exception, and when it
\* has returned every layer and table of both services has its entry.
C16_LookupFailureIsNotFatal ==
    /\ \A i \in FailedLookups :
          LET q == queries[i]
          IN  /\ Cardinality(EntryIndexes(q.kind, q.key)) = 1
              /\ \A j \in EntryIndexes(q.kind, q.key) :
                    results[q.kind][j][MetricOf(q)] = None
    /\ pc \in {"i_start", "i_host_loop", "i_guest_loop", "done"}
    /\ pc = "done" =>
          /\ ReturnedItems
          /\ \A k \in {"layers", "tables"} : \A key \in AllKeys(k) :
                Cardinality(EntryIndexes(k, key)) = 1

\* C16 witness: the count query failed on the host layer "Roads" and the
\* last-edit lookup failed on the guest table; both entries are there with
\* None for the metric, and the layer "Parcels" was compared as well.
C16_Witness ==
    /\ ReturnedItems
    /\ \E i \in FailedLookups :
          queries[i].op = "count" /\ queries[i].side = "host" /\ queries[i].key = "Roads"
    /\ \E i \in FailedLookups :
          queries[i].op = "last_edit" /\ queries[i].side = "guest" /\ queries[i].kind = "tables"
    /\ \E e \in Range(results.layers) : e.key = "Roads" /\ e.host_count = None
    /\ \E e \in Range(results.tables) : e.guest_last_edit = None /\ e.guest_count = Some(1)
    /\ \E e \in Range(results.layers) : e.key = "Parcels" /\ e.status = "ok"

\* ------------------------------------------------------------------- C19
\* The items of a group that take part in the matching: all of them, or
\* with strict_type the feature services only.
Candidates(side) ==
    SelectSeq(env[side].items,
              LAMBDA i : ~args.strict_type \/ i.type = "Feature Service")

ReturnedPairs == pc = "done" /\ result # None

\* The guest candidates whose origin id is the host item's id.
OriginMatches(hi) ==
    {g \in Range(Candidates("guest")) : ExtractOriginHostId(g) = hi.id}

\* The guest candidates of exactly the host item's title and type.
TitleMatches(hi) ==
    {g \in Range(Candidates("guest")) : g.title = hi.title /\ g.type = hi.type}

PairsOf(hi) == {i \in 1..Len(result[1]) : result[1][i][1] = hi}

\* C19: origin-id matching has priority over title matching: a host item
\* whose id is the origin id of some guest item is paired with a guest item
\* of that origin id, whatever the titles and even when another guest item
\* has the host item's (title, type); one host item A and one guest item B
\* of origin id A.id give exactly the pair (A, B). (Host and guest items are
\* those that take part in the matching.)
C19_OriginBeforeTitle ==
    ReturnedPairs =>
        /\ \A hi \in Range(Candidates("host")) :
              OriginMatches(hi) # {} =>
                  /\ Cardinality(PairsOf(hi)) = 1
                  /\ \A i \in PairsOf(hi) : result[1][i][2] \in OriginMatches(hi)
        /\ (/\ Len(Candidates("host")) = 1
            /\ Len(Candidates("guest")) = 1
            /\ OriginMatches(Candidates("host")[1]) # {})
           => result[1] = <<<<Candidates("host")[1], Candidates("guest")[1]>>>>

\* C19 witness: host item h1 "Roads"; guest g1 is "Parcels" with origin id
\* h1, guest g2 is "Roads" of the same type with no origin id; the pair is
\* (h1, g1).
C19_Witness ==
    /\ ReturnedPairs
    /\ Len(env.host.items) = 1 /\ Len(env.guest.items) = 2
    /\ env.host.items[1].title = "Roads"
    /\ env.guest.items[1].title = "Parcels"
    /\ ExtractOriginHostId(env.guest.items[1]) = "h1"
    /\ env.guest.items[2].title = "Roads"
    /\ env.guest.items[2].type = env.host.items[1].type
    /\ ExtractOriginHostId(env.guest.items[2]) = ""
    /\ result[1] = <<<<env.host.items[1], env.guest.items[1]>>>>

\* ------------------------------------------------------------------- C20
Matched(hi) == OriginMatches(hi) # {} \/ TitleMatches(hi) # {}

\* C20: a host item with no origin-id match is paired iff some guest item
\* has exactly its (title, type), and then with such an item; a host item
\* with neither match gives no pair and no error; the pairs are as many as
\* the matched host items, each host item is in at most one pair, and the
\* pairs follow the host listing order.
C20_TitleFallbackAndNoPairOtherwise ==
    /\ pc # "raised"
    /\ ReturnedPairs =>
        /\ \A hi \in Range(Candidates("host")) :
              /\ Cardinality(PairsOf(hi)) <= 1
              /\ OriginMatches(hi) = {} =>
                    /\ (PairsOf(hi) # {}) <=> (TitleMatches(hi) # {})
                    /\ \A i \in PairsOf(hi) : result[1][i][2] \in TitleMatches(hi)
              /\ ~Matched(hi) => PairsOf(hi) = {}
        /\ Len(result[1]) = Cardinality({hi \in Range(Candidates("host")) : Matched(hi)})
        /\ [i \in 1..Len(result[1]) |-> result[1][i][1]]
              = SelectSeq(Candidates("host"), LAMBDA hi : Matched(hi))

\* C20 witness: of two host items the first has neither match and the
\* second is matched by title and type alone; one pair is returned.
C20_Witness ==
    /\ ReturnedPairs
    /\ Len(Candidates("host")) = 2
    /\ ~Matched(Candidates("host")[1])
    /\ OriginMatches(Candidates("host")[2]) = {}
    /\ TitleMatches(Candidates("host")[2]) # {}
    /\ Len(result[1]) = 1
    /\ result[1][1][1] = Candidates("host")[2]

\* ------------------------------------------------------------------- C17
\* One of the two compare operations is running or has run.
Comparing == "host_item_id" \in DOMAIN args

Started == pc \notin {"start", "i_start", "p_start"}

\* An item that cannot be found, or that is found and cannot be opened.
Unavailable(side) == env[side].item = "none" \/ (env[side].item = "found" /\ env[side].opens # "ok")

\* The error payload of a comparison that did not open: status, message and
\* the two item ids, nothing else; nothing was queried.
ErrorWithoutPartialResult ==
    /\ pc = "done"
    /\ result # None
    /\ DOMAIN result[1] = {"status", "message", "host_item_id", "guest_item_id"}
    /\ result[1].status = "error"
    /\ result[1].message # <<>>
    /\ result[1].host_item_id = args.host_item_id
    /\ result[1].guest_item_id = args.guest_item_id
    /\ results = [layers |-> <<>>, tables |-> <<>>]
    /\ queries = <<>>

\* C17: if the host or the guest item cannot be found or cannot be opened as
\* a feature service, both compare operations return a result of status
\* "error" with a message and the two item ids and no partial result: no
\* layers or tables entries, and no count or record query on any layer.
C17_ErrorResultWhenItemUnavailable ==
    (Comparing /\ Started /\ (Unavailable("host") \/ Unavailable("guest")))
        => ErrorWithoutPartialResult

\* C17 when both lookups answer: an item that is None or an opening that
\* raises gives the error payload, in both operations.
ErrorResultWhenLookupsAnswer ==
    (/\ Comparing /\ Started
     /\ ContentGet("host") # "raise" /\ ContentGet("guest") # "raise"
     /\ (Unavailable("host") \/ Unavailable("guest")))
        => ErrorWithoutPartialResult

\* ------------------------------------------------------------------- C18
\* C18: no core operation raises to its caller: whatever the collaborators
\* do (an item or group lookup that fails or returns nothing, an opening
\* that fails, a count or attribute query that fails), the two compare
\* operations and pair_items_in_groups end by returning a result.
C18_NoOperationRaises == pc # "raised"

\* Whatever happens after the lookups is returned as a result.
RaisesOnlyFromLookups ==
    pc = "raised" =>
        IF Comparing
        THEN ContentGet("host") = "raise" \/ ContentGet("guest") = "raise"
        ELSE GroupGet("host") = "raise" \/ GroupGet("guest") = "raise"

\* ------------------------------------------------------------------- C21
\* The last of the guest candidates that lies in a set.
LastOf(S) ==
    LET g == Candidates("guest")
        last == CHOOSE i \in 1..Len(g) : g[i] \in S /\ \A j \in (i + 1)..Len(g) : g[j] \notin S
    IN  g[last]

\* C21: when several guest items have the host item's (title, type), a host
\* item matched by title is paired with exactly one of them, the one listed
\* last in the guest group; when several guest items carry the host item's
\* id as origin id, the last listed one is the match.
C21_LastGuestWins ==
    ReturnedPairs =>
        \A hi \in Range(Candidates("host")) :
            /\ OriginMatches(hi) # {} =>
                  /\ Cardinality(PairsOf(hi)) = 1
                  /\ \A i \in PairsOf(hi) : result[1][i][2] = LastOf(OriginMatches(hi))
            /\ (OriginMatches(hi) = {} /\ TitleMatches(hi) # {}) =>
                  /\ Cardinality(PairsOf(hi)) = 1
                  /\ \A i \in PairsOf(hi) : result[1][i][2] = LastOf(TitleMatches(hi))

\* C21 witness: two guest items share the host item's title and type and
\* neither has an origin id; the host item is paired with the second.
C21_Witness ==
    /\ ReturnedPairs
    /\ Len(Candidates("host")) = 1
    /\ Len(Candidates("guest")) = 2
    /\ Cardinality(TitleMatches(Candidates("host")[1])) = 2
    /\ OriginMatches(Candidates("host")[1]) = {}
    /\ result[1] = <<<<Candidates("host")[1], Candidates("guest")[2]>>>>

\* Two guest items carry the host item's id as origin id; the host item is
\* paired with the second.
C21_LastOriginWins ==
    /\ ReturnedPairs
    /\ Len(Candidates("host")) = 1
    /\ Cardinality(OriginMatches(Candidates("host")[1])) = 2
    /\ result[1] = <<<<Candidates("host")[1], Candidates("guest")[2]>>>>

\* ------------------------------------------------------------------- C22
\* pair_items_in_groups is running or has run.
Pairing == "host_group_id" \in DOMAIN args

\* A group that cannot be found, or that is found and whose content cannot
\* be listed.
NoListing(side) ==
    GroupGet(side) = "none" \/ (GroupGet(side) = "found" /\ env[side].content # "ok")

\* Every item of every returned pair is a feature service.
OnlyFeatureServicesPaired ==
    \A i \in 1..Len(result[1]) :
        result[1][i][1].type = "Feature Service" /\ result[1][i][2].type = "Feature Service"

\* The operation returns, or will return, the empty pair list.
EmptyPairList ==
    /\ pc \in {"p_loop", "done"}
    /\ pc = "p_loop" => cur.pairs = <<>> /\ (todo = <<>> \/ cur.guest_by_key = <<>>)
    /\ pc = "done" => result = Some(<<>>)

\* C22: with strict_type both listings are filtered before the matching, so
\* every item of every returned pair is a feature service, pairs matched by
\* origin id included; a group that cannot be found or whose content listing
\* fails contributes an empty list, and the result is the empty pair list,
\* not an error.
C22_StrictTypeAndEmptyOnFailure ==
    /\ (Pairing /\ ReturnedPairs /\ args.strict_type) => OnlyFeatureServicesPaired
    /\ (Pairing /\ Started /\ (NoListing("host") \/ NoListing("guest"))) => EmptyPairList

\* C22 when both group lookups answer.
EmptyPairListWhenLookupsAnswer ==
    /\ (Pairing /\ ReturnedPairs /\ args.strict_type) => OnlyFeatureServicesPaired
    /\ (/\ Pairing /\ Started
        /\ GroupGet("host") # "raise" /\ GroupGet("guest") # "raise"
        /\ (NoListing("host") \/ NoListing("guest")))
       => EmptyPairList

\* With strict_type a guest item that is not a feature service is not
\* paired although it carries the host item's id as origin id.
StrictTypeDropsOriginMatch ==
    /\ Pairing /\ ReturnedPairs /\ args.strict_type
    /\ \E g \in Range(env.guest.items) :
          g.type # "Feature Service" /\ ExtractOriginHostId(g) = "h1"
    /\ \E h \in Range(env.host.items) : h.id = "h1" /\ h.type = "Feature Service"
    /\ OnlyFeatureServicesPaired

\* ------------------------------------------------------------------- C23
\* The name a handle declares, in its properties or as an attribute.
DeclaredName(h) == IF h.propsName # "" THEN h.propsName ELSE h.attrName

\* The ids a handle offers, in the order they are read.
OfferedIds(h) == SelectSeq(<<h.propsId, h.propsLayerId, h._layer_id>>, LAMBDA x : x # None)

NameTier(h) == ~h.nameErr /\ DeclaredName(h) # ""
IdTier(h) == ~NameTier(h) /\ ~h.idErr /\ OfferedIds(h) # <<>>

\* C23: the key resolver returns a key for every handle (it never raises):
\* the declared name when it is non-empty and read without error; otherwise
\* "id:<id>" when an id is available and read without error, id 0 included;
\* otherwise the process-local fallback key. An error in the name tier falls
\* through to the id tier, an error in the id tier to the fallback. Two
\* handles of the same non-empty name get the same key.
C23_KeyPriority ==
    fOut # None =>
        /\ NameTier(fLayer) => fOut[1] = DeclaredName(fLayer)
        /\ IdTier(fLayer) => fOut[1] = "id:" \o ToString(OfferedIds(fLayer)[1][1])
        /\ (~NameTier(fLayer) /\ ~IdTier(fLayer)) => fOut[1] = ToString(fLayer.addr)
        /\ \A g \in KeyHandles :
              (NameTier(fLayer) /\ NameTier(g) /\ DeclaredName(g) = DeclaredName(fLayer))
                  => LayerKey(g) = fOut[1]

\* C23 witness: the read of the name raises although the layer is named,
\* and the key is "id:0" from id 0.
C23_Witness ==
    /\ fOut = Some("id:0")
    /\ fLayer.nameErr
    /\ fLayer.propsName = "Parcels"
    /\ fLayer.propsId = Some(0)

\* Both tiers raise and the key is the fallback.
C23_Fallback ==
    fOut = Some("7") /\ fLayer.nameErr /\ fLayer.idErr /\ fLayer.propsName = "Parcels"


\* ------------------------------------------------------------------- C24
\* The record requests (pages or unbounded fetches) in the order issued.
RecordRequests == {i \in 1..Len(queries) : queries[i].op \in {"page", "all"}}

SameLayer(i, j) ==
    /\ queries[i].side = queries[j].side
    /\ queries[i].kind = queries[j].kind
    /\ queries[i].key = queries[j].key

SameEntry(i, j) == queries[i].kind = queries[j].kind /\ queries[i].key = queries[j].key

\* C24: no query is retried and a failure is terminal for its layer: each
\* page request (layer, offset) is issued at most once; after a failed
\* request on the host layer no later query goes to that host layer and no
\* query at all goes to the matching guest layer; after a failed request on
\* the guest layer no later query goes to that guest layer; the entry of the
\* layer is there as soon as the request has failed, is the only one of its
\* key, and stays "error".
C24_NoRetryFailureIsTerminal ==
    /\ \A i, j \in RecordRequests :
          (i < j /\ SameLayer(i, j)) => queries[i].offset # queries[j].offset
    /\ \A i \in FailedRequests :
          /\ \A j \in 1..Len(queries) : (j > i) => ~SameLayer(i, j)
          /\ queries[i].side = "host" =>
                \A j \in 1..Len(queries) : SameEntry(i, j) => queries[j].side = "host"
          /\ Cardinality(EntryIndexes(queries[i].kind, queries[i].key)) = 1
          /\ \A e \in EntriesOf(queries[i].kind, queries[i].key) : e.status = "error"

\* C24 witness: the comparison returned; the second page request on the
\* host layer Parcels failed after the first had succeeded, the guest layer
\* Parcels was never queried, and the request on the guest table Owners
\* failed after the host table had been streamed.
C24_Witness ==
    /\ ReturnedComparison
    /\ \E i \in FailedRequests :
          /\ queries[i].side = "host" /\ queries[i].key = "Parcels" /\ queries[i].offset = 1
          /\ \E j \in 1..(i - 1) : SameLayer(i, j) /\ queries[j].outcome = "ok"
    /\ \E i \in FailedRequests :
          /\ queries[i].side = "guest" /\ queries[i].key = "Owners"
          /\ \E j \in 1..(i - 1) : SameEntry(i, j) /\ queries[j].side = "host"
    /\ Len(queries) > 4


\* ------------------------------------------------------------------- C25
\* The record requests sent to the one layer of a side, in the order issued.
RequestsTo(side) == SelectSeq(queries, LAMBDA q : q.side = side /\ q.op \in {"page", "all"})

LayerAt(side) == env[side].layers[1]

\* The stream of a side has ended without a failed request.
StreamDone(side) ==
    /\ RequestsTo(side) # <<>>
    /\ \A i \in 1..Len(RequestsTo(side)) : RequestsTo(side)[i].outcome = "ok"
    /\ pc # (IF side = "host" THEN "host_query" ELSE "guest_query")

\* The rows the endpoint returns for the i-th request of a side.
Returned(side, i) == PageOf(LayerAt(side), ChunkSizeVal, RequestsTo(side)[i].offset)

TerminatesOn(side) ==
    LET reqs == RequestsTo(side)
        layer == LayerAt(side)
        N == Len(layer.rows)
        c == ChunkSizeVal
    IN  IF UsePagination(layer, c)
        THEN /\ \A i \in 1..Len(reqs) : reqs[i].op = "page" /\ reqs[i].offset = (i - 1) * c
             /\ \A i \in 1..(Len(reqs) - 1) :
                   reqs[i].outcome = "ok" /\ Len(Returned(side, i)) = c
             /\ Len(reqs) <= (N \div c) + 1
             /\ StreamDone(side) =>
                   /\ Len(reqs) = (N \div c) + 1
                   /\ Len(Returned(side, Len(reqs))) < c
        ELSE /\ \A i \in 1..Len(reqs) : reqs[i].op = "all" /\ reqs[i].offset = 0
             /\ Len(reqs) <= 1
             /\ StreamDone(side) => Len(reqs) = 1

\* C25: the paginated loop terminates.  On a layer of N rows that supports
\* pagination, with chunk size c >= 1 and an endpoint that returns exactly
\* the rows in [offset, offset + c), the requests carry the offsets 0, c,
\* 2c, ... in this order, every request but the last returns a full page,
\* the last returns an empty or a short page, and a stream that ends without
\* a failure has issued exactly N div c + 1 requests; when pagination is not
\* supported or c = 0, exactly one request is issued.
C25_PaginationTerminates == TerminatesOn("host") /\ TerminatesOn("guest")

\* C25 witness: chunk size 2; the host layer holds three rows and is read
\* with the requests at 0 and 2, the second a short page; the guest layer
\* holds two rows and is read with the requests at 0 and 2, the second an
\* empty page.
C25_Witness ==
    /\ ReturnedComparison
    /\ ChunkSizeVal = 2
    /\ UsePagination(LayerAt("host"), 2) /\ UsePagination(LayerAt("guest"), 2)
    /\ Len(LayerAt("host").rows) = 3 /\ Len(LayerAt("guest").rows) = 2
    /\ StreamDone("host") /\ StreamDone("guest")
    /\ Len(RequestsTo("host")) = 2 /\ Len(Returned("host", 2)) = 1
    /\ Len(RequestsTo("guest")) = 2 /\ Returned("guest", 2) = <<>>

\* A layer without pagination is read with one request whatever the chunk
\* size.
C25_SingleFetch ==
    /\ ReturnedComparison
    /\ ChunkSizeVal = 1
    /\ ~SupportsPagination(LayerAt("host")) /\ Len(LayerAt("host").rows) = 3
    /\ StreamDone("host") /\ Len(RequestsTo("host")) = 1


\* ------------------------------------------------------------------- C26
\* C26: paginated streaming counts every row of the layer exactly once,
\* also when the endpoint returns fewer rows than chunk_size on a page that
\* is not the last: host_count and guest_count of a compared entry are the
\* numbers of rows the two layers hold.
C26_AllRowsCounted ==
    \A e \in Compared :
        /\ e.host_count = Len(HostLayerOf(e).rows)
        /\ e.guest_count = Len(GuestLayerOf(e).rows)

\* The same of the layers whose endpoint returns the requested windows.
AllRowsCountedOfExactWindows ==
    \A e \in Compared :
        ExactWindows(e) =>
            /\ e.host_count = Len(HostLayerOf(e).rows)
            /\ e.guest_count = Len(GuestLayerOf(e).rows)

\* A capped first page ends the stream: the layer holds two equal rows on
\* each side, the host returns one row per request, and the entry counts one
\* host row and reports the other as missing there.
CappedPageEndsStream ==
    \E e \in Compared :
        /\ HostLayerOf(e).pageCap = 1 /\ GuestLayerOf(e).pageCap = 0
        /\ Len(HostLayerOf(e).rows) = 2 /\ Len(GuestLayerOf(e).rows) = 2
        /\ e.host_count = 1 /\ e.guest_count = 2
        /\ e.status = "mismatch"
        /\ Len(RequestsTo("host")) = 1


\* ------------------------------------------------------------------- C27
\* The layer of the current key is being streamed, or its streams have ended.
Streaming == pc \in {"host_query", "guest_query"} \/ ComparedNow # {}

\* The field lists the requests of the two sides ask for (out_fields).
RequestedFields(col) ==
    CleanFields(ActualFields(FieldOrder(cur.fields_info), FieldMap(cur.fields_info, col)), <<>>)

TuplesOf(counter) == Range(DictKeys(counter))

\* C27: before a row tuple is counted, the field lists requested from host
\* and guest have the same arity, and at every position the host name and
\* the guest name are equal case-insensitively, whatever their spelling;
\* every host tuple and every guest tuple counted has this arity.
C27_SameFieldsBothSides ==
    Streaming =>
        LET hf == RequestedFields(2)
            gf == RequestedFields(3)
        IN  /\ Len(hf) = Len(gf)
            /\ \A i \in 1..Len(hf) : i <= Len(gf) /\ Lower(hf[i]) = Lower(gf[i])
            /\ \A t \in TuplesOf(cur.counter) \cup TuplesOf(cur.host_counter)
                        \cup TuplesOf(cur.guest_counter) : Len(t) = Len(hf)

\* C27 witness: the host stream has ended and the guest stream is running;
\* the host asked for NAME and STATUS, the guest for name and Status, and a
\* tuple of two values has been counted on each side.
C27_Witness ==
    /\ pc = "guest_query"
    /\ RequestedFields(2) = <<"NAME", "STATUS">>
    /\ RequestedFields(3) = <<"name", "Status">>
    /\ cur.host_counter # <<>>
    /\ cur.counter # <<>>

\* Two host fields that differ by case only are requested once on each side.
C27_CaseDuplicates ==
    /\ pc = "guest_query"
    /\ Len(cur.host_fields) = 3
    /\ Len(cur.fields_info) = 3
    /\ Len(RequestedFields(2)) = 2
    /\ cur.host_counter # <<>>


\* ------------------------------------------------------------------- C28
Sides == {"host", "guest"}
Kinds == {"layers", "tables"}

MapOf(side) == IF side = "host" THEN HostMap ELSE GuestMap

\* The layer is the one its key denotes in the key-to-layer map of its
\* service, and the result holds exactly one entry of its kind under its key.
AccountedFor(side, k, layer) ==
    /\ DictGet(MapOf(side)[k], LayerKeyOf(layer), NoLayer) = layer
    /\ Cardinality(EntryIndexes(k, LayerKeyOf(layer))) = 1

\* The entries of a result never share a key within a kind.
EntryKeysDistinct ==
    \A k \in Kinds : \A i, j \in 1..Len(results[k]) :
        i # j => results[k][i].key # results[k][j].key

\* C28: a layer key under comparison denotes at most one layer in each
\* service: within one kind no two layers of a service resolve to the same
\* key of the key-to-layer map, every layer and table of the host and of the
\* guest is accounted for by exactly one entry of the returned result, and
\* no two entries of a kind share a key.
C28_OneLayerPerKey ==
    ReturnedComparison =>
        /\ \A side \in Sides, k \in Kinds :
              \A i, j \in 1..Len(env[side][k]) :
                  i # j => LayerKeyOf(env[side][k][i]) # LayerKeyOf(env[side][k][j])
        /\ \A side \in Sides, k \in Kinds :
              \A i \in 1..Len(env[side][k]) :
                  AllowKey(LayerKeyOf(env[side][k][i])) =>
                      AccountedFor(side, k, env[side][k][i])
        /\ EntryKeysDistinct

\* Two host layers are named "Parcels"; the result holds one entry, which
\* compares the second of them with the guest layer and is "ok", while the
\* first holds a row the guest lacks.
TwinLayerUnreported ==
    /\ ReturnedComparison
    /\ Len(env.host.layers) = 2 /\ Len(env.guest.layers) = 1
    /\ LayerKeyOf(env.host.layers[1]) = LayerKeyOf(env.host.layers[2])
    /\ env.host.layers[1].rows # <<>>
    /\ env.host.layers[2].rows = <<>> /\ env.guest.layers[1].rows = <<>>
    /\ Len(results.layers) = 1
    /\ results.layers[1].status = "ok"
    /\ result[1].status = "ok"


\* ------------------------------------------------------------------- C29
\* The keys of a kind that either service holds.
KeysOfEither(k) == Range(DictKeys(HostMap[k])) \cup Range(DictKeys(GuestMap[k]))

\* The call names layer keys, and this key, lowercased, is not among them.
FilteredOut(key) ==
    args.layer_keys # {} /\ \A w \in args.layer_keys : Lower(w) # Lower(key)

\* C29: when layer_keys is given and non-empty, a host or guest layer or
\* table gets an entry iff its key, lowercased, is in the lowercased
\* layer_keys; a layer filtered out gets no entry of any status and no count
\* or attribute query; when layer_keys is absent or empty every key of both
\* services gets an entry.
C29_LayerKeysFilter ==
    \A k \in Kinds :
        /\ \A e \in Range(results[k]) : ~FilteredOut(e.key)
        /\ \A key \in KeysOfEither(k) :
              /\ FilteredOut(key) =>
                    /\ EntryIndexes(k, key) = {}
                    /\ RecordQueriesOf(k, key) = {}
              /\ (ReturnedComparison /\ ~FilteredOut(key)) =>
                    Cardinality(EntryIndexes(k, key)) = 1

\* C29 witness: the call names "PARCELS"; the returned result holds the
\* entry of the layer "Parcels", which was queried, and nothing of the layer
\* "Roads" and of the table "Owners" that both services hold.
C29_Witness ==
    /\ ReturnedComparison
    /\ args.layer_keys = {"PARCELS"}
    /\ {"Parcels", "Roads"} \subseteq KeysOfEither("layers")
    /\ "Owners" \in KeysOfEither("tables")
    /\ Len(results.layers) = 1 /\ results.layers[1].key = "Parcels"
    /\ results.tables = <<>>
    /\ RecordQueriesOf("layers", "Parcels") # {}
    /\ \A i \in 1..Len(queries) : queries[i].key = "Parcels"

\* Without layer_keys every key of both services has its entry.
C29_NoFilter ==
    /\ ReturnedComparison
    /\ args.layer_keys = {}
    /\ Len(results.layers) = 2 /\ Len(results.tables) = 1


\* ------------------------------------------------------------------- C30
\* The number of rows the first n requests of a side returned.
RECURSIVE RowsStreamed(_, _)
RowsStreamed(side, n) ==
    IF n = 0 THEN 0 ELSE Len(Returned(side, n)) + RowsStreamed(side, n - 1)

RECURSIVE SumOfCounts(_)
SumOfCounts(only) ==
    IF only = <<>> THEN 0 ELSE Head(only).count + SumOfCounts(Tail(only))

\* C30: in every entry of status "ok" or "mismatch", host_count and
\* guest_count are the numbers of rows streamed from the two sides, every
\* item of host_only and of guest_only has a count of at least 1, no
\* attribute tuple is listed in both, and the sum of the host_only counts
\* minus the sum of the guest_only counts is host_count - guest_count.
C30_CountsAndDeltaAgree ==
    \A e \in Compared :
        /\ e.host_count = RowsStreamed("host", Len(RequestsTo("host")))
        /\ e.guest_count = RowsStreamed("guest", Len(RequestsTo("guest")))
        /\ \A i \in 1..Len(e.host_only) : e.host_only[i].count >= 1
        /\ \A j \in 1..Len(e.guest_only) : e.guest_only[j].count >= 1
        /\ \A i \in 1..Len(e.host_only), j \in 1..Len(e.guest_only) :
              e.host_only[i].attributes # e.guest_only[j].attributes
        /\ SumOfCounts(e.host_only) - SumOfCounts(e.guest_only) = e.host_count - e.guest_count

\* C30 witness: three host rows alike, streamed in two pages, against two
\* guest rows, one of them like the host's and one the host lacks:
\* host_only lists the host's tuple with count 2, guest_only the other tuple
\* with count 1, and 2 - 1 = 3 - 2.
C30_Witness ==
    \E e \in Compared :
        /\ e.status = "mismatch"
        /\ e.host_count = 3 /\ e.guest_count = 2
        /\ Len(RequestsTo("host")) = 2
        /\ Len(e.host_only) = 1 /\ Len(e.guest_only) = 1
        /\ e.host_only[1].count = 2
        /\ e.guest_only[1].count = 1
====
